---- MODULE Spec2Model ----
(***************************************************************************)
(* Horovod: the process-wide runtime (horovod_global), the Enqueue API,    *)
(* the background thread loop (BackgroundThreadLoop, RunLoopOnce,          *)
(* PerformOperation), the lifecycle calls (horovod_init, horovod_shutdown) *)
(* of src/horovod/common/operations.cc, and the negotiation protocol of    *)
(* the controller (ComputeResponseList), which operations.cc calls.        *)
(*                                                                         *)
(* One copy of the runtime per rank.  Producer threads and the background  *)
(* thread of a rank interleave at the granularity of the critical sections *)
(* of horovod_global.mutex and of the accesses to the atomic flags.        *)
(***************************************************************************)
EXTENDS Integers, Sequences, FiniteSets, TLC

\* ------------------------------------------------------------------ bounds

\* Number of ranks of the job (controller->GetSize()).
Size == 2

\* Enqueue* calls made per rank over the run.
MaxCalls == 2

\* horovod_init calls per rank that start a background thread.
MaxInits == 1

\* The tensor fusion threshold, in bytes (HOROVOD_FUSION_THRESHOLD).
FusionThreshold == 8

Ranks == 0 .. (Size - 1)

\* The coordinator is rank 0 (RANK_ZERO).
Coordinator == 0

Names == {"a", "b"}

CallIds == 1 .. MaxCalls

\* ---------------------------------------------------------------- statuses

OK == "OK"
SHUT_DOWN_ERROR == "SHUT_DOWN_ERROR"
DUPLICATE_NAME_ERROR == "DUPLICATE_NAME_ERROR"
PRECONDITION_ERROR == "PRECONDITION_ERROR"
UNKNOWN_ERROR == "UNKNOWN_ERROR"
IN_PROGRESS == "IN_PROGRESS"
ALLOCATION_ERROR == "ALLOCATION_ERROR"
\* The precondition error CheckInitialized returns: Horovod has not been
\* initialized.
NOT_INITIALIZED_ERROR == "NOT_INITIALIZED_ERROR"

\* ------------------------------------------------------------ the messages

\* What an Enqueue* call puts into its Request besides the name and the rank:
\* the request type (which Enqueue* function was called), the tensor's dtype
\* and its shape (here: its number of elements).  The allreduces differ in
\* dtype alone and in shape alone.
RequestAttrs ==
  { [request_type |-> "ALLREDUCE", tensor_type |-> "f32", tensor_shape |-> 1],
    [request_type |-> "ALLREDUCE", tensor_type |-> "f64", tensor_shape |-> 1],
    [request_type |-> "ALLREDUCE", tensor_type |-> "f32", tensor_shape |-> 2],
    [request_type |-> "ALLGATHER", tensor_type |-> "f64", tensor_shape |-> 1],
    [request_type |-> "BROADCAST", tensor_type |-> "f32", tensor_shape |-> 2] }

ElementSize(tensor_type) == IF tensor_type = "f64" THEN 8 ELSE 4

\* Request message; set_request_rank, set_tensor_name, set_tensor_type,
\* set_request_type, add_tensor_shape.
Request(r, name, attrs) ==
  [request_rank |-> r, tensor_name |-> name,
   request_type |-> attrs.request_type,
   tensor_type  |-> attrs.tensor_type,
   tensor_shape |-> attrs.tensor_shape]

VARIABLES
  initialize_flag,      \* [rank] horovod_global.initialize_flag
  initialization_done,  \* [rank] horovod_global.initialization_done
  shut_down,            \* [rank] horovod_global.shut_down
  background_thread,    \* [rank] where the background thread is ("none": no thread)
  joining,              \* [rank] a horovod_shutdown call is blocked in join()
  tensor_table,         \* [rank][name] callback id of the entry, 0: no entry
  message_queue,        \* [rank] horovod_global.message_queue
  message_table,        \* [name] coordinator: the Requests received for the name
  message_list,         \* [rank] the Requests popped this cycle and the shutdown signal
  response_list,        \* [rank] the ResponseList delivered, what is left to perform
  entries,              \* [rank] PerformOperation's local entries and response
  callbacks,            \* [rank] BackgroundThreadLoop's local callbacks (the drain)
  in_flight,            \* [rank] callbacks of operations that returned InProgress
  calls,                \* [rank] the Status each Enqueue* call returned, in call order
  ninits,               \* [rank] number of background threads started
  cb_log,               \* [rank][call] Statuses the call's callback was invoked with
  performed,            \* [rank] the Responses handed to PerformOperation, in order
  adasum,               \* one call of AdasumCudaAllreduceOp: its inputs and results
  cache,                \* the Response Cache of each rank and its cycles
  api,                  \* the threads of one process inside the lifecycle calls
  perform,              \* one call of PerformOperation, statement by statement
  manager,              \* the operation manager and one ExecuteOperation call
  timeline,             \* the Timeline object and the file it writes
  mutex                 \* horovod_global.mutex and the threads of one process

vars == << initialize_flag, initialization_done, shut_down, background_thread,
           joining, tensor_table, message_queue, message_table, message_list,
           response_list, entries, callbacks, in_flight, calls, ninits,
           cb_log, performed, adasum, cache, api, perform, manager, timeline,
           mutex >>

\* What the runtime of the ranks is made of, and the rest.
runtime_vars == << initialize_flag, initialization_done, shut_down, background_thread,
                   joining, tensor_table, message_queue, message_table, message_list,
                   response_list, entries, callbacks, in_flight, calls, ninits,
                   cb_log, performed >>

side_vars == << adasum, cache, api, perform, manager, timeline, mutex >>

lifecycle_vars == << initialize_flag, initialization_done, shut_down,
                     background_thread, joining, ninits >>

NoEntries == [response |-> [response_type |-> "NONE", tensor_names |-> << >>],
              cbs |-> << >>]

EmptyResponseList == [responses |-> << >>, shutdown |-> FALSE]

EmptyMessageList == [requests |-> << >>, shutdown |-> FALSE]

\* The state after static construction of horovod_global: nothing initialized.
RuntimeInit ==
  /\ initialize_flag = [r \in Ranks |-> FALSE]
  /\ initialization_done = [r \in Ranks |-> FALSE]
  /\ shut_down = [r \in Ranks |-> FALSE]
  /\ background_thread = [r \in Ranks |-> "none"]
  /\ joining = [r \in Ranks |-> FALSE]
  /\ tensor_table = [r \in Ranks |-> [n \in Names |-> 0]]
  /\ message_queue = [r \in Ranks |-> << >>]
  /\ message_table = [n \in Names |-> << >>]
  /\ message_list = [r \in Ranks |-> EmptyMessageList]
  /\ response_list = [r \in Ranks |-> EmptyResponseList]
  /\ entries = [r \in Ranks |-> NoEntries]
  /\ callbacks = [r \in Ranks |-> {}]
  /\ in_flight = [r \in Ranks |-> {}]
  /\ calls = [r \in Ranks |-> << >>]
  /\ ninits = [r \in Ranks |-> 0]
  /\ cb_log = [r \in Ranks |-> [k \in CallIds |-> << >>]]
  /\ performed = [r \in Ranks |-> << >>]

\* No operation has been called, nothing is cached, no thread is inside a
\* lifecycle call.
NoAdasum == [pc |-> "none"]

NoCache == [pc |-> "none"]

NoApi == [pc |-> "none"]

NoPerform == [pc |-> "none"]

NoManager == [pc |-> "none"]

NoTimeline == [pc |-> "none"]

NoMutex == [pc |-> "none"]

\* The side variables of the later sections are not in use.
NoMore == manager = NoManager /\ timeline = NoTimeline /\ mutex = NoMutex

Init ==
  /\ RuntimeInit
  /\ adasum = NoAdasum
  /\ cache = NoCache
  /\ api = NoApi
  /\ perform = NoPerform
  /\ NoMore

\* cb(status) for every callback id of the set cbs, on rank r.
Invoke(log, cbs, status) ==
  [k \in CallIds |-> IF k \in cbs THEN Append(log[k], status) ELSE log[k]]

\* ------------------------------------------------------------ Enqueue API

\* Mutant: the lookup of the name in the tensor table is left out.
EnqueueStatus_NoDuplicateCheck(r, name) ==
  IF shut_down[r] THEN SHUT_DOWN_ERROR ELSE OK

\* The checks every Enqueue* makes under horovod_global.mutex, in the code's
\* order: shut_down first, then the lookup of the name in the tensor table.
EnqueueStatus(r, name) ==
  IF shut_down[r] THEN SHUT_DOWN_ERROR
  ELSE IF tensor_table[r][name] # 0 THEN DUPLICATE_NAME_ERROR
  ELSE OK

\* Mutant: the Request is put at the head of the queue.
PushMessage_Front(queue, message) == << message >> \o queue

\* message_queue.push(message): the queue is FIFO.
PushMessage(queue, message) == Append(queue, message)

\* The body shared by EnqueueTensorAllreduce / Allgather / Broadcast.  The
\* caller's precondition (the controller exists: horovod_global.controller is
\* dereferenced before the lock) is initialization_done.  One critical
\* section: the status checks, tensor_table.emplace and message_queue.push.
\* The callback of call number k on rank r is identified by k.
EnqueueTensor(r, name, attrs) ==
  /\ initialization_done[r]
  /\ Len(calls[r]) < MaxCalls
  /\ LET k == Len(calls[r]) + 1
         status == EnqueueStatus(r, name)
     IN /\ calls' = [calls EXCEPT ![r] = Append(@, status)]
        /\ IF status = OK
             THEN /\ tensor_table' = [tensor_table EXCEPT ![r][name] = k]
                  /\ message_queue' =
                       [message_queue EXCEPT ![r] = PushMessage(@, Request(r, name, attrs))]
             ELSE UNCHANGED << tensor_table, message_queue >>
  /\ UNCHANGED << lifecycle_vars, message_table, message_list, response_list,
                  entries, callbacks, in_flight, cb_log, performed >>
  /\ UNCHANGED side_vars

EnqueueTensorAllreduce(r, name, attrs) ==
  /\ attrs.request_type = "ALLREDUCE"
  /\ EnqueueTensor(r, name, attrs)

EnqueueTensorAllgather(r, name, attrs) ==
  /\ attrs.request_type = "ALLGATHER"
  /\ EnqueueTensor(r, name, attrs)

EnqueueTensorBroadcast(r, name, attrs) ==
  /\ attrs.request_type = "BROADCAST"
  /\ EnqueueTensor(r, name, attrs)

\* -------------------------------------------------------------- lifecycle

\* InitializeHorovodOnce: the first call (initialize_flag.test_and_set()
\* returns false) creates the controller, resets initialization_done and
\* starts the background thread; any other call starts nothing.  The model
\* starts at most limit threads on a rank.
InitializeHorovodOnce(r, limit) ==
  IF ~initialize_flag[r]
    THEN /\ ninits[r] < limit
         /\ initialize_flag' = [initialize_flag EXCEPT ![r] = TRUE]
         /\ initialization_done' = [initialization_done EXCEPT ![r] = FALSE]
         /\ background_thread' = [background_thread EXCEPT ![r] = "init"]
         /\ ninits' = [ninits EXCEPT ![r] = @ + 1]
         /\ UNCHANGED << shut_down, joining >>
    ELSE UNCHANGED lifecycle_vars

horovod_init_comm(r, limit) ==
  /\ ~joining[r]
  /\ InitializeHorovodOnce(r, limit)
  /\ UNCHANGED << tensor_table, message_queue, message_table, message_list,
                  response_list, entries, callbacks, in_flight, calls, cb_log,
                  performed >>
  /\ UNCHANGED side_vars

horovod_init(r) == horovod_init_comm(r, MaxInits)

\* horovod_shutdown up to join(): if the thread is joinable, set shut_down and
\* block in join().  Without a joinable thread the call does nothing.
horovod_shutdown(r) ==
  /\ ~joining[r]
  /\ IF background_thread[r] # "none"
       THEN /\ shut_down' = [shut_down EXCEPT ![r] = TRUE]
            /\ joining' = [joining EXCEPT ![r] = TRUE]
       ELSE UNCHANGED << shut_down, joining >>
  /\ UNCHANGED << initialize_flag, initialization_done, background_thread, ninits,
                  tensor_table, message_queue, message_table, message_list,
                  response_list, entries, callbacks, in_flight, calls, cb_log,
                  performed >>
  /\ UNCHANGED side_vars

\* horovod_shutdown after join() returned: the background thread has ended;
\* initialize_flag is cleared and shut_down is reset to false.
ShutDownAfterJoin_Kept(r) == shut_down[r]

ShutDownAfterJoin(r) == FALSE

horovod_shutdown_joined(r) ==
  /\ joining[r]
  /\ background_thread[r] = "exited"
  /\ background_thread' = [background_thread EXCEPT ![r] = "none"]
  /\ initialize_flag' = [initialize_flag EXCEPT ![r] = FALSE]
  /\ shut_down' = [shut_down EXCEPT ![r] = ShutDownAfterJoin(r)]
  /\ joining' = [joining EXCEPT ![r] = FALSE]
  /\ UNCHANGED << initialization_done, ninits,
                  tensor_table, message_queue, message_table, message_list,
                  response_list, entries, callbacks, in_flight, calls, cb_log,
                  performed >>
  /\ UNCHANGED side_vars

\* ------------------------------------------------- negotiation (controller)

\* The coordinator adds the Requests it received, in order, to the message
\* table; a name is ready when the Requests recorded for it reach Size.
RECURSIVE IncrementTensorCount(_, _, _)
IncrementTensorCount(requests, table, ready) ==
  IF requests = << >>
    THEN [table |-> table, ready |-> ready]
    ELSE LET msg == Head(requests)
             name == msg.tensor_name
             table2 == [table EXCEPT ![name] = Append(@, msg)]
         IN IncrementTensorCount(Tail(requests), table2,
                                 IF Len(table2[name]) = Size
                                   THEN Append(ready, name)
                                   ELSE ready)

\* The Requests recorded for one name disagree in request type, dtype or shape.
Mismatch(requests) ==
  \E i \in 1 .. Len(requests) :
     \/ requests[i].request_type # requests[1].request_type
     \/ requests[i].tensor_type # requests[1].tensor_type
     \/ requests[i].tensor_shape # requests[1].tensor_shape

\* The Response for one ready name: an ERROR Response when the recorded
\* Requests mismatch, else a Response of the requested type.
ConstructResponse(name, requests) ==
  IF Mismatch(requests)
    THEN [response_type |-> "ERROR", tensor_names |-> << name >>,
          tensor_type |-> "none", tensor_size |-> 0]
    ELSE [response_type |-> requests[1].request_type, tensor_names |-> << name >>,
          tensor_type |-> requests[1].tensor_type,
          tensor_size |-> requests[1].tensor_shape * ElementSize(requests[1].tensor_type)]

\* Mutant: the fusion threshold is not looked at.
Fusable_NoThreshold(a, b) ==
  /\ a.response_type # "ERROR"
  /\ a.response_type = b.response_type
  /\ a.tensor_type = b.tensor_type

\* Two Responses may share one fused Response.
Fusable(a, b) ==
  /\ a.response_type # "ERROR"
  /\ a.response_type = b.response_type
  /\ a.tensor_type = b.tensor_type
  /\ a.tensor_size + b.tensor_size <= FusionThreshold

\* Group the Responses, in order, into fused Responses: acc is the fused
\* Response being filled.
RECURSIVE FuseResponses(_, _)
FuseResponses(acc, responses) ==
  IF responses = << >>
    THEN << acc >>
    ELSE LET nxt == Head(responses)
         IN IF Fusable(acc, nxt)
              THEN FuseResponses(
                     [acc EXCEPT !.tensor_names = @ \o nxt.tensor_names,
                                 !.tensor_size = @ + nxt.tensor_size],
                     Tail(responses))
              ELSE << acc >> \o FuseResponses(nxt, Tail(responses))

RECURSIVE Concat(_, _)
Concat(lists, r) ==
  IF r >= Size THEN << >> ELSE lists[r].requests \o Concat(lists, r + 1)

\* The terminal condition: every rank has signaled shutdown and no tensor
\* name is pending at the coordinator.
ShouldShutDown(lists, table) ==
  /\ \A r \in Ranks : lists[r].shutdown
  /\ \A n \in Names : table[n] = << >>

\* The coordinator's cycle: merge the ranks' lists, build and fuse the
\* Responses of the ready names, decide shutdown.
ComputeResponseList(lists, table) ==
  LET m == IncrementTensorCount(Concat(lists, 0), table, << >>)
      single == [i \in 1 .. Len(m.ready) |->
                   ConstructResponse(m.ready[i], m.table[m.ready[i]])]
      table2 == [n \in Names |->
                   IF \E i \in 1 .. Len(m.ready) : m.ready[i] = n
                     THEN << >> ELSE m.table[n]]
  IN IF ShouldShutDown(lists, m.table)
       THEN [list |-> [responses |-> << >>, shutdown |-> TRUE], table |-> table2]
       ELSE [list |-> [responses |-> IF single = << >> THEN << >>
                                     ELSE FuseResponses(Head(single), Tail(single)),
                       shutdown |-> FALSE],
             table |-> table2]

\* ------------------------------------------------------ background thread

\* BackgroundThreadLoop up to the loop: the coordinator creates a new
\* MessageTable, then initialization_done is set.
BackgroundThreadInit(r) ==
  /\ background_thread[r] = "init"
  /\ message_table' = IF r = Coordinator THEN [n \in Names |-> << >>] ELSE message_table
  /\ initialization_done' = [initialization_done EXCEPT ![r] = TRUE]
  /\ background_thread' = [background_thread EXCEPT ![r] = "loop"]
  /\ UNCHANGED << initialize_flag, shut_down, joining, ninits, tensor_table,
                  message_queue, message_list, response_list, entries, callbacks,
                  in_flight, calls, cb_log, performed >>
  /\ UNCHANGED side_vars

\* Mutant: the negation is missing.
RunLoopOnceResult_NotNegated(list) == list.shutdown

\* What RunLoopOnce returns: whether the loop goes on.
RunLoopOnceResult(list) == ~list.shutdown

\* Mutant: with the shutdown flag set the Responses left are skipped.
AfterPerform_StopAtShutdown(list) ==
  IF list.shutdown THEN "shutting"
  ELSE IF list.responses # << >> THEN "perform"
  ELSE "loop"

\* Where the background thread is once the Responses left of the list are
\* all performed: RunLoopOnce returns, and on false BackgroundThreadLoop
\* leaves the loop.
AfterPerform(list) ==
  IF list.responses # << >> THEN "perform"
  ELSE IF RunLoopOnceResult(list) THEN "loop"
  ELSE "shutting"

\* RunLoopOnce enters ComputeResponseList: the rank drains its message queue
\* under the mutex; it then waits for the exchange with the other ranks.
PopMessages(r) ==
  /\ background_thread[r] = "loop"
  /\ message_list' = [message_list EXCEPT ![r] =
                        [requests |-> message_queue[r], shutdown |-> FALSE]]
  /\ message_queue' = [message_queue EXCEPT ![r] = << >>]
  /\ background_thread' = [background_thread EXCEPT ![r] = "popped"]
  /\ UNCHANGED << initialize_flag, initialization_done, shut_down, joining, ninits,
                  tensor_table, message_table, response_list, entries, callbacks,
                  in_flight, calls, cb_log, performed >>
  /\ UNCHANGED side_vars

\* The exchange: once every rank has drained its queue, each rank's list goes
\* to the coordinator with the rank's shut_down flag as its shutdown signal;
\* the coordinator computes the ResponseList and broadcasts it; every rank
\* leaves ComputeResponseList with the same list.
Negotiate ==
  /\ \A r \in Ranks : background_thread[r] = "popped"
  /\ LET lists == [r \in Ranks |-> [message_list[r] EXCEPT !.shutdown = shut_down[r]]]
         c == ComputeResponseList(lists, message_table)
     IN /\ message_table' = c.table
        /\ response_list' = [r \in Ranks |-> c.list]
        /\ background_thread' = [r \in Ranks |-> AfterPerform(c.list)]
  /\ message_list' = [r \in Ranks |-> EmptyMessageList]
  /\ UNCHANGED << initialize_flag, initialization_done, shut_down, joining, ninits,
                  tensor_table, message_queue, entries, callbacks, in_flight,
                  calls, cb_log, performed >>
  /\ UNCHANGED side_vars

\* Mutant: the ranks other than the coordinator walk the list backwards.
NextResponse_RankOrder(r) ==
  IF r = Coordinator
    THEN Head(response_list[r].responses)
    ELSE response_list[r].responses[Len(response_list[r].responses)]

\* RunLoopOnce's loop over response_list.responses(): the Response handed to
\* PerformOperation next.
NextResponse(r) == Head(response_list[r].responses)

\* Mutant: no error op; an ERROR Response is executed like a collective.
ExecuteOperation_NoErrorOp(response) == {OK, IN_PROGRESS, UNKNOWN_ERROR}

\* The Status op_manager->ExecuteOperation may end with for a Response: the
\* error op turns an ERROR Response into a precondition error; a collective
\* succeeds, is left in progress (completed later by the operation), or
\* throws, which PerformOperation turns into an unknown error.
ExecuteOperation(response) ==
  IF response.response_type = "ERROR"
    THEN {PRECONDITION_ERROR}
    ELSE {OK, IN_PROGRESS, UNKNOWN_ERROR}

\* The callback ids of a sequence of entries (0: the name had no entry).
CallbacksOf(cbs) == {cbs[i] : i \in 1 .. Len(cbs)} \ {0}

\* Mutant: the whole tensor table is cleared.
EraseEntries_All(table, names) == [n \in Names |-> 0]

\* tensor_table.erase(iter) for every name of the Response.
EraseEntries(table, names) ==
  [n \in Names |-> IF \E i \in 1 .. Len(names) : names[i] = n THEN 0 ELSE table[n]]

\* PerformOperation, the critical section: under the mutex, copy the entry of
\* every name of the Response out of the tensor table and erase it.
PerformOperationLock(r) ==
  /\ background_thread[r] = "perform"
  /\ response_list[r].responses # << >>
  /\ LET response == NextResponse(r)
         names == response.tensor_names
     IN /\ entries' = [entries EXCEPT ![r] =
                         [response |-> [response_type |-> response.response_type,
                                        tensor_names |-> names],
                          cbs |-> [i \in 1 .. Len(names) |-> tensor_table[r][names[i]]]]]
        /\ tensor_table' = [tensor_table EXCEPT ![r] = EraseEntries(@, names)]
        /\ performed' = [performed EXCEPT ![r] =
                           Append(@, [response_type |-> response.response_type,
                                      tensor_names |-> names])]
        /\ response_list' = [response_list EXCEPT ![r].responses =
                               SelectSeq(@, LAMBDA x : x # response)]
  /\ background_thread' = [background_thread EXCEPT ![r] = "execute"]
  /\ UNCHANGED << initialize_flag, initialization_done, shut_down, joining, ninits,
                  message_queue, message_table, message_list, callbacks, in_flight,
                  calls, cb_log >>
  /\ UNCHANGED side_vars

\* Mutant: the callbacks are invoked whatever the Status.
CompletedBy_Always(status, cbs) == cbs

\* Mutant: the callbacks are invoked on success only.
CompletedBy_OnlyOK(status, cbs) == IF status = OK THEN cbs ELSE {}

\* if (!status.in_progress()): the callbacks PerformOperation invokes itself.
CompletedBy(status, cbs) == IF status # IN_PROGRESS THEN cbs ELSE {}

\* PerformOperation after the critical section.  With more than one entry
\* the fusion buffer is initialized first, and a failure of that completes
\* every entry with the failure's Status.  Otherwise the operation is
\* executed and, unless it is left in progress, every entry's callback is
\* invoked with its Status.
PerformOperationExecute(r) ==
  /\ background_thread[r] = "execute"
  /\ LET cbs == CallbacksOf(entries[r].cbs)
     IN \/ /\ Len(entries[r].cbs) > 1
           /\ cb_log' = [cb_log EXCEPT ![r] = Invoke(@, cbs, ALLOCATION_ERROR)]
           /\ UNCHANGED in_flight
        \/ \E status \in ExecuteOperation(entries[r].response) :
             /\ cb_log' = [cb_log EXCEPT ![r] = Invoke(@, CompletedBy(status, cbs), status)]
             /\ in_flight' = [in_flight EXCEPT ![r] =
                                IF status = IN_PROGRESS THEN @ \cup cbs ELSE @]
  /\ entries' = [entries EXCEPT ![r] = NoEntries]
  /\ background_thread' = [background_thread EXCEPT ![r] = AfterPerform(response_list[r])]
  /\ UNCHANGED << initialize_flag, initialization_done, shut_down, joining, ninits,
                  tensor_table, message_queue, message_table, message_list,
                  response_list, callbacks, calls, performed >>
  /\ UNCHANGED side_vars

\* An operation left in progress completes: its finalization invokes the
\* entry's callback.
FinalizeCUDAQueue(r, k) ==
  /\ k \in in_flight[r]
  /\ in_flight' = [in_flight EXCEPT ![r] = @ \ {k}]
  /\ cb_log' = [cb_log EXCEPT ![r] = Invoke(@, {k}, OK)]
  /\ UNCHANGED << lifecycle_vars, tensor_table, message_queue, message_table,
                  message_list, response_list, entries, callbacks, calls,
                  performed >>
  /\ UNCHANGED side_vars

\* BackgroundThreadLoop after the loop: signal that shutdown has been
\* requested.
SignalShutDown(r) ==
  /\ background_thread[r] = "shutting"
  /\ shut_down' = [shut_down EXCEPT ![r] = TRUE]
  /\ background_thread' = [background_thread EXCEPT ![r] = "draining"]
  /\ UNCHANGED << initialize_flag, initialization_done, joining, ninits,
                  tensor_table, message_queue, message_table, message_list,
                  response_list, entries, callbacks, in_flight, calls, cb_log,
                  performed >>
  /\ UNCHANGED side_vars

\* Mutant: the message queue is not emptied.
DrainTensorTable_KeepQueue(r) ==
  /\ background_thread[r] = "draining"
  /\ callbacks' = [callbacks EXCEPT ![r] = {tensor_table[r][n] : n \in Names} \ {0}]
  /\ tensor_table' = [tensor_table EXCEPT ![r] = [n \in Names |-> 0]]
  /\ background_thread' = [background_thread EXCEPT ![r] = "notify"]
  /\ UNCHANGED << initialize_flag, initialization_done, shut_down, joining, ninits,
                  message_queue, message_table, message_list, response_list, entries,
                  in_flight, calls, cb_log, performed >>
  /\ UNCHANGED side_vars

\* The shutdown drain's critical section: collect the callback of every
\* entry, clear the tensor table and empty the message queue.
DrainTensorTable(r) ==
  /\ background_thread[r] = "draining"
  /\ callbacks' = [callbacks EXCEPT ![r] = {tensor_table[r][n] : n \in Names} \ {0}]
  /\ tensor_table' = [tensor_table EXCEPT ![r] = [n \in Names |-> 0]]
  /\ message_queue' = [message_queue EXCEPT ![r] = << >>]
  /\ background_thread' = [background_thread EXCEPT ![r] = "notify"]
  /\ UNCHANGED << initialize_flag, initialization_done, shut_down, joining, ninits,
                  message_table, message_list, response_list, entries, in_flight,
                  calls, cb_log, performed >>
  /\ UNCHANGED side_vars

\* After the critical section: cb(SHUT_DOWN_ERROR) for every collected
\* callback; the thread ends.
NotifyShutDown(r) ==
  /\ background_thread[r] = "notify"
  /\ cb_log' = [cb_log EXCEPT ![r] = Invoke(@, callbacks[r], SHUT_DOWN_ERROR)]
  /\ callbacks' = [callbacks EXCEPT ![r] = {}]
  /\ background_thread' = [background_thread EXCEPT ![r] = "exited"]
  /\ UNCHANGED << initialize_flag, initialization_done, shut_down, joining, ninits,
                  tensor_table, message_queue, message_table, message_list,
                  response_list, entries, in_flight, calls, performed >>
  /\ UNCHANGED side_vars

\* ------------------------------------------------------------ specification

Producer(r) ==
  \/ horovod_init(r)
  \/ horovod_shutdown(r)
  \/ horovod_shutdown_joined(r)
  \/ \E name \in Names, attrs \in RequestAttrs :
       \/ EnqueueTensorAllreduce(r, name, attrs)
       \/ EnqueueTensorAllgather(r, name, attrs)
       \/ EnqueueTensorBroadcast(r, name, attrs)

Background(r) ==
  \/ BackgroundThreadInit(r)
  \/ PopMessages(r)
  \/ PerformOperationLock(r)
  \/ PerformOperationExecute(r)
  \/ SignalShutDown(r)
  \/ DrainTensorTable(r)
  \/ NotifyShutDown(r)
  \/ \E k \in CallIds : FinalizeCUDAQueue(r, k)

Next ==
  \/ \E r \in Ranks : Producer(r)
  \/ \E r \in Ranks : Background(r)
  \/ Negotiate

Spec == Init /\ [][Next]_vars

\* A job whose producers submit allreduces of one tensor name only.
AllreduceName == "a"

AllreduceProducer(r) ==
  \/ horovod_init(r)
  \/ horovod_shutdown(r)
  \/ horovod_shutdown_joined(r)
  \/ \E attrs \in RequestAttrs : EnqueueTensorAllreduce(r, AllreduceName, attrs)

AllreduceNext ==
  \/ \E r \in Ranks : AllreduceProducer(r)
  \/ \E r \in Ranks : Background(r)
  \/ Negotiate

\* The background thread of a rank is a running thread, the exchange of a
\* cycle completes once every rank has entered it, and join() returns once
\* the thread has ended: each is scheduled fairly.  The producer's calls are
\* not.
FairSpec ==
  /\ Init
  /\ [][AllreduceNext]_vars
  /\ \A r \in Ranks : WF_vars(Background(r))
  /\ \A r \in Ranks : WF_vars(horovod_shutdown_joined(r))
  /\ WF_vars(Negotiate)

\* A job that is shut down and initialized again: its producers submit
\* allreduces of one tensor name and may start a second background thread.
MaxReinits == 2

ReinitProducer(r) ==
  \/ horovod_init_comm(r, MaxReinits)
  \/ horovod_shutdown(r)
  \/ horovod_shutdown_joined(r)
  \/ \E attrs \in RequestAttrs : EnqueueTensorAllreduce(r, AllreduceName, attrs)

ReinitNext ==
  \/ \E r \in Ranks : ReinitProducer(r)
  \/ \E r \in Ranks : Background(r)
  \/ Negotiate

ReinitSpec == Init /\ [][ReinitNext]_vars

\* ============================ one cycle of RunLoopOnce on a delivered list

\* RunLoopOnce after ComputeResponseList has returned, on every rank: the
\* ResponseList is an input.  The list is built from the Requests the ranks
\* submitted for the ready names (the same on every rank, fused or not, with
\* ERROR Responses on a mismatch) and carries the shutdown flag or not; each
\* rank's tensor table holds the entries of the list's names and possibly an
\* entry enqueued since, whose Request is still in the rank's message queue.
ReadyOrders == { << >>, << "a" >>, << "b" >>, << "a", "b" >>, << "b", "a" >> }

DeliveredList(order, attrs, shutdown) ==
  LET single == [i \in 1 .. Len(order) |->
                   ConstructResponse(order[i],
                      [r \in 1 .. Size |-> Request(r - 1, order[i], attrs[r - 1])])]
  IN [responses |-> IF single = << >> THEN << >>
                    ELSE FuseResponses(Head(single), Tail(single)),
      shutdown |-> shutdown]

\* The entries of a rank: call k enqueued the k-th of the names present.
EntriesOf(present) ==
  [n \in Names |-> IF n \notin present THEN 0
                   ELSE IF n = "a" \/ "a" \notin present THEN 1 ELSE 2]

LoopInit ==
  /\ \E order \in ReadyOrders, attrs \in [Ranks -> RequestAttrs], shutdown \in BOOLEAN,
        present \in [Ranks -> SUBSET Names] :
       LET list == DeliveredList(order, attrs, shutdown)
           ready == {order[i] : i \in 1 .. Len(order)}
       IN /\ \A r \in Ranks : ready \subseteq present[r]
          /\ response_list = [r \in Ranks |-> list]
          /\ background_thread = [r \in Ranks |-> AfterPerform(list)]
          /\ shut_down = [r \in Ranks |-> shutdown]
          /\ joining = [r \in Ranks |-> shutdown]
          /\ tensor_table = [r \in Ranks |-> EntriesOf(present[r])]
          /\ calls = [r \in Ranks |-> [k \in 1 .. Cardinality(present[r]) |-> OK]]
          /\ message_queue =
               [r \in Ranks |->
                  IF present[r] \ ready = {} THEN << >>
                  ELSE << Request(r, CHOOSE n \in present[r] \ ready : TRUE, attrs[r]) >>]
  /\ initialize_flag = [r \in Ranks |-> TRUE]
  /\ initialization_done = [r \in Ranks |-> TRUE]
  /\ ninits = [r \in Ranks |-> 1]
  /\ message_table = [n \in Names |-> << >>]
  /\ message_list = [r \in Ranks |-> EmptyMessageList]
  /\ entries = [r \in Ranks |-> NoEntries]
  /\ callbacks = [r \in Ranks |-> {}]
  /\ in_flight = [r \in Ranks |-> {}]
  /\ cb_log = [r \in Ranks |-> [k \in CallIds |-> << >>]]
  /\ performed = [r \in Ranks |-> << >>]
  /\ adasum = NoAdasum
  /\ cache = NoCache
  /\ api = NoApi
  /\ perform = NoPerform
  /\ NoMore

LoopNext ==
  \E r \in Ranks :
     \/ PerformOperationLock(r)
     \/ PerformOperationExecute(r)
     \/ SignalShutDown(r)
     \/ DrainTensorTable(r)
     \/ NotifyShutDown(r)
     \/ \E k \in CallIds : FinalizeCUDAQueue(r, k)

LoopSpec == LoopInit /\ [][LoopNext]_vars

\* ================================================ AdasumCudaAllreduceOp

\* One call of an allreduce op of the operation manager, on the local ranks
\* of one node: the capability check Enabled and, for AdasumCudaAllreduceOp,
\* the steps of NcclHierarchical that lay out the fused buffer.  The
\* collectives themselves leave the layout alone and are not modelled.

MaxLocalSize == 4

FUSION_BUFFER_ATOMIC_UNIT == 64

CPU_DEVICE_ID == -1

Devices == {CPU_DEVICE_ID, 0}

AllreduceOps == {"AdasumCudaAllreduceOp", "NCCLHierarchicalAllreduce"}

\* shape().num_elements() of each entry of the Response, in entries order.
EntryLists ==
  { << 5 >>, << 64 >>, << 130 >>, << 1, 2 >>, << 63, 2, 65 >>, << 100, 30 >>,
    << 128, 128 >>, << 1000, 2000, 3000 >> }

Max(a, b) == IF a >= b THEN a ELSE b

Min(a, b) == IF a <= b THEN a ELSE b

\* AdasumCudaAllreduceOp::Enabled.
AdasumCudaAllreduceOpEnabled(hierarchical, device) == device # CPU_DEVICE_ID

\* NCCLHierarchicalAllreduce::Enabled.
NCCLHierarchicalAllreduceEnabled(hierarchical, device) ==
  hierarchical /\ device # CPU_DEVICE_ID

\* The virtual call op->Enabled(param_manager, entries, response).
Enabled(op, hierarchical, device) ==
  IF op = "AdasumCudaAllreduceOp"
    THEN AdasumCudaAllreduceOpEnabled(hierarchical, device)
    ELSE NCCLHierarchicalAllreduceEnabled(hierarchical, device)

\* The bytes of the input tensor of entry i: byte j of it is << i, j >>.
TensorData(i, size) == [j \in 1 .. size |-> << i, j >>]

\* tensor->size() of each entry: its bytes.
TensorSizes(list, dtype) == [i \in 1 .. Len(list) |-> list[i] * ElementSize(dtype)]

\* Mutant: the offset advances by one byte less than the entry's size.
RECURSIVE MemcpyInFusionBuffer_Overlap(_, _)
MemcpyInFusionBuffer_Overlap(sizes, i) ==
  IF i > Len(sizes)
    THEN << >>
    ELSE LET data == TensorData(i, sizes[i])
         IN (IF i < Len(sizes) THEN SubSeq(data, 1, sizes[i] - 1) ELSE data)
              \o MemcpyInFusionBuffer_Overlap(sizes, i + 1)

\* MemcpyInFusionBuffer: the inputs of the entries from i on, one after the
\* other in entries order.
RECURSIVE MemcpyInFusionBuffer(_, _)
MemcpyInFusionBuffer(sizes, i) ==
  IF i > Len(sizes)
    THEN << >>
    ELSE TensorData(i, sizes[i]) \o MemcpyInFusionBuffer(sizes, i + 1)

\* The offset of entry i in the fusion buffer.
RECURSIVE Offset(_, _)
Offset(sizes, i) == IF i = 1 THEN 0 ELSE Offset(sizes, i - 1) + sizes[i - 1]

\* MemcpyOutFusionBuffer: the output of every entry is read at the entry's
\* offset.
MemcpyOutFusionBuffer(buffer, sizes) ==
  [i \in 1 .. Len(sizes) |->
     SubSeq(buffer, Offset(sizes, i) + 1, Offset(sizes, i) + sizes[i])]

\* num_elements: the sum over the entries.
RECURSIVE NumElements(_)
NumElements(list) == IF list = << >> THEN 0 ELSE Head(list) + NumElements(Tail(list))

\* Mutant: the fused group is not padded.
PaddedNumElements_NoPadding(n, local_size, homogeneous, nentries) == n

\* Mutant: the unit is taken in bytes of the widest type, not in elements.
PaddedNumElements_ByteUnit(n, local_size, homogeneous, nentries) ==
  IF homogeneous /\ nentries > 1
    THEN LET div == local_size * FUSION_BUFFER_ATOMIC_UNIT * 8
         IN ((n + div - 1) \div div) * div
    ELSE n

\* num_elements after the padding of a fused group in a homogeneous cluster.
PaddedNumElements(n, local_size, homogeneous, nentries) ==
  IF homogeneous /\ nentries > 1
    THEN LET div == local_size * FUSION_BUFFER_ATOMIC_UNIT
         IN ((n + div - 1) \div div) * div
    ELSE n

NumElementsPerRank(n, local_size, homogeneous) ==
  IF homogeneous THEN n \div local_size ELSE 0

NumElementsRemaining(n, local_size, homogeneous) ==
  IF homogeneous THEN n % local_size ELSE n

\* Mutant: the last local rank is the root in every cluster.
RootRank_Last(local_size, homogeneous) == local_size - 1

RootRank(local_size, homogeneous) == IF homogeneous THEN local_size - 1 ELSE 0

\* Mutant: the root rank does not count the remainder.
RootShare_None(sofar, e, local_size, per_rank) == 0

\* What the root rank adds to its count of a tensor: the tensor's elements
\* behind the divisible part.
RootShare(sofar, e, local_size, per_rank) ==
  IF sofar + e >= local_size * per_rank
    THEN Max((sofar + e) - Max(sofar, local_size * per_rank), 0)
    ELSE 0

\* The loop over the entries that fills tensor_counts on local_rank, from
\* entry i on, with num_elements_sofar = sofar.
RECURSIVE TensorCounts(_, _, _, _, _, _)
TensorCounts(list, i, sofar, local_rank, local_size, per_rank) ==
  IF i > Len(list)
    THEN << >>
    ELSE LET e == list[i]
             left_boundary == Max(sofar, local_rank * per_rank)
             right_boundary == Min(sofar + e, (local_rank + 1) * per_rank)
             own == Max(right_boundary - left_boundary, 0)
             count == IF local_rank = local_size - 1
                        THEN own + RootShare(sofar, e, local_size, per_rank)
                        ELSE own
         IN << count >> \o
            TensorCounts(list, i + 1, sofar + e, local_rank, local_size, per_rank)

\* tensor_counts of every local rank that computes it.
AllTensorCounts(list, local_size, homogeneous, per_rank) ==
  [lr \in 0 .. (local_size - 1) |->
     IF homogeneous
       THEN TensorCounts(list, 1, 0, lr, local_size, per_rank)
       ELSE IF lr = RootRank(local_size, homogeneous)
              THEN list
              ELSE << >>]

\* The calls the model makes: the op, what the parameter manager says about
\* hierarchical allreduce, the device and the dtype of the first entry, the
\* entries, the node.
AdasumCalls ==
  [pc : {"called"}, op : AllreduceOps, hierarchical : BOOLEAN, device : Devices,
   dtype : {"f32", "f64"}, entries : EntryLists,
   local_size : 1 .. MaxLocalSize, homogeneous : BOOLEAN,
   enabled : {FALSE}, buffer : {<< >>}, num_elements : {0},
   num_elements_per_rank : {0}, num_elements_remaining : {0},
   tensor_counts : {<< >>}, outputs : {<< >>}]

AdasumInit ==
  /\ RuntimeInit
  /\ adasum \in AdasumCalls
  /\ cache = NoCache
  /\ api = NoApi
  /\ perform = NoPerform
  /\ NoMore

\* The operation manager asks the op whether it is enabled.
CheckEnabled ==
  /\ adasum.pc = "called"
  /\ LET e == Enabled(adasum.op, adasum.hierarchical, adasum.device)
     IN adasum' = [adasum EXCEPT !.enabled = e,
                                 !.pc = IF e THEN "selected" ELSE "rejected"]
  /\ UNCHANGED << runtime_vars, cache, api, perform, manager, timeline, mutex >>

\* NcclHierarchical: copy memory into the fusion buffer.
CopyIntoFusionBuffer ==
  /\ adasum.pc = "selected"
  /\ adasum.op = "AdasumCudaAllreduceOp"
  /\ adasum' = [adasum EXCEPT
        !.buffer = IF Len(adasum.entries) > 1
                     THEN MemcpyInFusionBuffer(TensorSizes(adasum.entries, adasum.dtype), 1)
                     ELSE << >>,
        !.pc = "copied"]
  /\ UNCHANGED << runtime_vars, cache, api, perform, manager, timeline, mutex >>

\* NcclHierarchical: num_elements and its split.
SplitElements ==
  /\ adasum.pc = "copied"
  /\ LET n == PaddedNumElements(NumElements(adasum.entries), adasum.local_size,
                                adasum.homogeneous, Len(adasum.entries))
     IN adasum' = [adasum EXCEPT
           !.num_elements = n,
           !.num_elements_per_rank =
              NumElementsPerRank(n, adasum.local_size, adasum.homogeneous),
           !.num_elements_remaining =
              NumElementsRemaining(n, adasum.local_size, adasum.homogeneous),
           !.pc = "split"]
  /\ UNCHANGED << runtime_vars, cache, api, perform, manager, timeline, mutex >>

\* NcclHierarchical: the boundaries of the tensors on every local rank.
CountTensorElements ==
  /\ adasum.pc = "split"
  /\ adasum' = [adasum EXCEPT
        !.tensor_counts = AllTensorCounts(adasum.entries, adasum.local_size,
                                          adasum.homogeneous,
                                          adasum.num_elements_per_rank),
        !.pc = "counted"]
  /\ UNCHANGED << runtime_vars, cache, api, perform, manager, timeline, mutex >>

\* NcclHierarchical: copy memory out of the fusion buffer.
CopyOutOfFusionBuffer ==
  /\ adasum.pc = "counted"
  /\ adasum' = [adasum EXCEPT
        !.outputs = IF Len(adasum.entries) > 1
                      THEN MemcpyOutFusionBuffer(adasum.buffer,
                                                 TensorSizes(adasum.entries, adasum.dtype))
                      ELSE << >>,
        !.pc = "returned"]
  /\ UNCHANGED << runtime_vars, cache, api, perform, manager, timeline, mutex >>

AdasumNext ==
  \/ CheckEnabled
  \/ CopyIntoFusionBuffer
  \/ SplitElements
  \/ CountTensorElements
  \/ CopyOutOfFusionBuffer

AdasumSpec == AdasumInit /\ [][AdasumNext]_vars

\* ============================ NcclHierarchical on one local rank, step by step

\* One call of AdasumCudaAllreduceOp::NcclHierarchical on one local rank: the
\* collectives, copies and waits it issues, in the order of the code, and
\* the events it records for the timeline.  The Response was fused by the
\* controller within the fusion threshold, and PerformOperation sized the
\* fusion buffer with controller->TensorFusionThresholdBytes().

\* HOROVOD_FUSION_THRESHOLD values, in bytes: not a multiple of any local
\* size, a small power of two, and the default of 64 MB.
FusionThresholds == { 1000, 1024, 64 * 1024 * 1024 }

\* shape().num_elements() of the entries of a Response.
HierarchicalEntryLists ==
  { << 5 >>, << 130 >>, << 1, 2 >>, << 63, 2, 65 >>, << 100, 30 >>,
    << 128, 122 >>, << 128, 128 >>, << 16777000, 216 >> }

\* Mutant: the buffer has the size that was configured.
TensorFusionThresholdBytes_Configured(threshold, local_size, homogeneous) == threshold

\* Controller::TensorFusionThresholdBytes: in a homogeneous cluster the
\* configured threshold is rounded up to the divisibility unit, local_size
\* times FUSION_BUFFER_ATOMIC_UNIT elements of the widest type.
TensorFusionThresholdBytes(threshold, local_size, homogeneous) ==
  IF homogeneous
    THEN LET div == local_size * ElementSize("f64") * FUSION_BUFFER_ATOMIC_UNIT
         IN ((threshold + div - 1) \div div) * div
    ELSE threshold

\* The steps of one reduction, in the order of the code.
HierarchicalSteps ==
  << "MemcpyInFusionBuffer", "ncclReduceScatter", "ncclReduce", "WaitForEvents",
     "cudaMemcpyDeviceToHost", "DispatchFusedAllreduce", "cudaMemcpyHostToDevice",
     "ncclAllGather", "ncclBcast", "MemcpyOutFusionBuffer" >>

\* Mutant: the fusion buffer is used for a single entry too.
UsesFusionBuffer_Always(nentries) == TRUE

\* if (entries.size() > 1).
UsesFusionBuffer(nentries) == nentries > 1

\* Mutant: the collectives of the divisible part are issued for no elements.
HasShard_Always(per_rank) == TRUE

\* if (num_elements_per_rank > 0).
HasShard(per_rank) == per_rank > 0

\* if (num_elements_remaining > 0).
HasRemainder(remaining) == remaining > 0

\* if (IsHomogeneous() || is_root_rank): the rank has data to reduce across
\* the nodes.
ReducesAcrossNodes(homogeneous, local_rank, local_size) ==
  homogeneous \/ local_rank = RootRank(local_size, homogeneous)

\* Mutant: the remainder is counted on every rank.
TotalNumElements_WithRemainder(local_rank, root_rank, per_rank, remaining) ==
  per_rank + remaining

\* total_num_elements: the elements of the range a local rank owns and
\* copies to the host buffer.
TotalNumElements(local_rank, root_rank, per_rank, remaining) ==
  IF local_rank = root_rank THEN per_rank + remaining ELSE per_rank

\* The calls the model makes.  A Response of several entries was fused
\* within the threshold the controller reports.
HierarchicalCalls ==
  { c \in [pc : {"called"}, entries : HierarchicalEntryLists, dtype : {"f32", "f64"},
           local_size : 1 .. MaxLocalSize, local_rank : 0 .. (MaxLocalSize - 1),
           homogeneous : BOOLEAN, timeline : BOOLEAN, threshold : FusionThresholds,
           buffer_size : {0}, num_elements : {0}, buffer_len : {0},
           num_elements_per_rank : {0}, num_elements_remaining : {0},
           total_num_elements : {0}, tensor_counts : {<< >>},
           steps : {<< >>}, event_queue : {<< >>}] :
      /\ c.local_rank < c.local_size
      /\ Len(c.entries) > 1 =>
            NumElements(c.entries) * ElementSize(c.dtype)
              <= TensorFusionThresholdBytes(c.threshold, c.local_size, c.homogeneous) }

HierarchicalInit ==
  /\ RuntimeInit
  /\ adasum \in HierarchicalCalls
  /\ cache = NoCache
  /\ api = NoApi
  /\ perform = NoPerform
  /\ NoMore

\* A step of the call at position from: the step is issued when cond holds,
\* and with an initialized timeline an event is recorded for it when
\* recorded holds.
Issue(from, to, step, cond, recorded) ==
  /\ adasum.pc = from
  /\ adasum' = [adasum EXCEPT
        !.pc = to,
        !.steps = IF cond THEN Append(@, step) ELSE @,
        !.event_queue = IF cond /\ recorded /\ adasum.timeline
                          THEN Append(@, step) ELSE @]
  /\ UNCHANGED << runtime_vars, cache, api, perform, manager, timeline, mutex >>

\* PerformOperation: InitializeBuffer(TensorFusionThresholdBytes(), ...) for
\* more than one entry; NcclHierarchical: copy memory into the fusion buffer,
\* for one entry the buffer is the entry's output.
HierarchicalCopyIn ==
  /\ adasum.pc = "called"
  /\ adasum' = [adasum EXCEPT
        !.pc = "copied_in",
        !.buffer_size =
           IF UsesFusionBuffer(Len(adasum.entries))
             THEN TensorFusionThresholdBytes(adasum.threshold, adasum.local_size,
                                             adasum.homogeneous)
             ELSE NumElements(adasum.entries) * ElementSize(adasum.dtype),
        !.buffer_len = NumElements(adasum.entries) * ElementSize(adasum.dtype),
        !.steps = IF UsesFusionBuffer(Len(adasum.entries))
                    THEN Append(@, "MemcpyInFusionBuffer") ELSE @,
        !.event_queue = IF UsesFusionBuffer(Len(adasum.entries)) /\ adasum.timeline
                          THEN Append(@, "MemcpyInFusionBuffer") ELSE @]
  /\ UNCHANGED << runtime_vars, cache, api, perform, manager, timeline, mutex >>

\* num_elements, its padding and its split; buffer_len follows the padding.
HierarchicalSplit ==
  /\ adasum.pc = "copied_in"
  /\ LET n == PaddedNumElements(NumElements(adasum.entries), adasum.local_size,
                                adasum.homogeneous, Len(adasum.entries))
     IN adasum' = [adasum EXCEPT
           !.pc = "split",
           !.num_elements = n,
           !.buffer_len = IF adasum.homogeneous /\ Len(adasum.entries) > 1
                            THEN n * ElementSize(adasum.dtype) ELSE @,
           !.num_elements_per_rank =
              NumElementsPerRank(n, adasum.local_size, adasum.homogeneous),
           !.num_elements_remaining =
              NumElementsRemaining(n, adasum.local_size, adasum.homogeneous),
           !.total_num_elements =
              TotalNumElements(adasum.local_rank,
                               RootRank(adasum.local_size, adasum.homogeneous),
                               NumElementsPerRank(n, adasum.local_size, adasum.homogeneous),
                               NumElementsRemaining(n, adasum.local_size, adasum.homogeneous))]
  /\ UNCHANGED << runtime_vars, cache, api, perform, manager, timeline, mutex >>

ReduceScatter ==
  Issue("split", "scattered", "ncclReduceScatter",
        HasShard(adasum.num_elements_per_rank), TRUE)

Reduce ==
  Issue("scattered", "reduced", "ncclReduce",
        HasRemainder(adasum.num_elements_remaining), TRUE)

\* A rank with nothing to reduce across the nodes goes on with the
\* collectives that distribute the result.
SkipCrossNode ==
  /\ ~ReducesAcrossNodes(adasum.homogeneous, adasum.local_rank, adasum.local_size)
  /\ Issue("reduced", "cross_done", "none", FALSE, FALSE)

\* cuda_context_->WaitForEvents(event_queue_, ...): the queue is drained.
WaitForEvents ==
  /\ adasum.pc = "reduced"
  /\ ReducesAcrossNodes(adasum.homogeneous, adasum.local_rank, adasum.local_size)
  /\ adasum' = [adasum EXCEPT !.pc = "waited",
                              !.steps = Append(@, "WaitForEvents"),
                              !.event_queue = << >>]
  /\ UNCHANGED << runtime_vars, cache, api, perform, manager, timeline, mutex >>

MemcpyInHostBuffer ==
  Issue("waited", "on_host", "cudaMemcpyDeviceToHost", TRUE, FALSE)

\* tensor_counts of this rank, then DispatchFusedAllreduce.
DispatchFusedAllreduce ==
  /\ adasum.pc = "on_host"
  /\ adasum' = [adasum EXCEPT
        !.pc = "cross_reduced",
        !.tensor_counts = AllTensorCounts(adasum.entries, adasum.local_size,
                                          adasum.homogeneous,
                                          adasum.num_elements_per_rank)[adasum.local_rank],
        !.steps = Append(@, "DispatchFusedAllreduce")]
  /\ UNCHANGED << runtime_vars, cache, api, perform, manager, timeline, mutex >>

MemcpyOutHostBuffer ==
  Issue("cross_reduced", "cross_done", "cudaMemcpyHostToDevice", TRUE, FALSE)

AllGather ==
  Issue("cross_done", "gathered", "ncclAllGather",
        HasShard(adasum.num_elements_per_rank), TRUE)

Bcast ==
  Issue("gathered", "broadcast", "ncclBcast",
        HasRemainder(adasum.num_elements_remaining), TRUE)

HierarchicalCopyOut ==
  Issue("broadcast", "returned", "MemcpyOutFusionBuffer",
        UsesFusionBuffer(Len(adasum.entries)), TRUE)

HierarchicalNext ==
  \/ HierarchicalCopyIn
  \/ HierarchicalSplit
  \/ ReduceScatter
  \/ Reduce
  \/ SkipCrossNode
  \/ WaitForEvents
  \/ MemcpyInHostBuffer
  \/ DispatchFusedAllreduce
  \/ MemcpyOutHostBuffer
  \/ AllGather
  \/ Bcast
  \/ HierarchicalCopyOut

HierarchicalSpec == HierarchicalInit /\ [][HierarchicalNext]_vars

\* =============================== PerformOperation, statement by statement

\* One call of PerformOperation(tensor_table, response) on one rank.  The
\* record perform holds the call's locals (entries, waiting_tensors, the
\* iterator it, status), the tensor table, the state of every entry's
\* ready_event ("nullptr": the entry has none; "pending"; "ready"), the
\* Status InitializeBuffer will return, and what the call has done so far:
\* timeline Start/End records, callbacks invoked, calls of InitializeBuffer
\* and of ExecuteOperation, and the entries whose Ready() returned true.
PerformNames == << "a", "b", "c" >>

ReadyEvents == {"nullptr", "pending", "ready"}

\* Mutant: no entry is put on waiting_tensors.
WaitsFor_None(ready_event) == FALSE

\* if (e.ready_event != nullptr): the entry is put on waiting_tensors.
WaitsFor(ready_event) == ready_event # "nullptr"

\* Mutant: the fusion buffer is initialized for every Response.
NeedsFusionBuffer_Always(nentries) == TRUE

\* if (entries.size() > 1): the fusion buffer is initialized.
NeedsFusionBuffer(nentries) == nentries > 1

\* Mutant: the output is passed to the timeline whatever the Status.
TimelineOutput_Always(status) == "output"

\* timeline.End(e.tensor_name, status.ok() ? e.output : nullptr).
TimelineOutput(status) == IF status = OK THEN "output" ELSE "nullptr"

\* The Status InitializeBuffer may return: ok, or the allocation error of a
\* device that is out of memory.
InitializeBufferStatus == {OK, ALLOCATION_ERROR}

\* The timeline records op(name, arg) of the entries names, in order.
TimelineRecords(op, names, arg) ==
  [i \in 1 .. Len(names) |-> << op, names[i], arg >>]

\* The calls e.callback(status) of the entries names, in order.
CallbackRecords(names, status) ==
  [i \in 1 .. Len(names) |-> << names[i], status >>]

RangeOf(seq) == {seq[i] : i \in 1 .. Len(seq)}

\* The calls: a Response of one to three names, a tensor table that holds
\* at least these names, an event state per entry.
PerformCalls ==
  { [pc |-> "called",
     response |-> [response_type |-> t, tensor_names |-> SubSeq(PerformNames, 1, n)],
     tensor_table |-> IF others THEN RangeOf(PerformNames)
                                 ELSE RangeOf(SubSeq(PerformNames, 1, n)),
     ready_event |-> ev,
     init_status |-> st,
     entries |-> << >>,
     waiting_tensors |-> << >>,
     it |-> 1,
     observed |-> {},
     timeline |-> << >>,
     invoked |-> << >>,
     initialized |-> 0,
     executed |-> 0,
     status |-> "none"] :
       t \in {"ALLREDUCE", "ERROR"},
       n \in 1 .. Len(PerformNames),
       others \in BOOLEAN,
       ev \in [RangeOf(PerformNames) -> ReadyEvents],
       st \in InitializeBufferStatus }

PerformInit ==
  /\ RuntimeInit
  /\ adasum = NoAdasum
  /\ cache = NoCache
  /\ api = NoApi
  /\ NoMore
  /\ perform \in { p \in PerformCalls :
                     \A n \in RangeOf(PerformNames) \ RangeOf(p.response.tensor_names) :
                        p.ready_event[n] = "nullptr" }

PerformStep(from) ==
  /\ perform.pc = from
  /\ UNCHANGED << runtime_vars, adasum, cache, api, manager, timeline, mutex >>

\* The critical section: every name of the Response is found in the tensor
\* table, its entry is copied to entries and erased from the table.
LockAndErase ==
  /\ PerformStep("called")
  /\ RangeOf(perform.response.tensor_names) \subseteq perform.tensor_table
  /\ perform' = [perform EXCEPT
       !.pc = "locked",
       !.entries = perform.response.tensor_names,
       !.tensor_table = @ \ RangeOf(perform.response.tensor_names)]

\* timeline.Start for every entry.
TimelineStart ==
  /\ PerformStep("locked")
  /\ perform' = [perform EXCEPT
       !.pc = "started",
       !.timeline = @ \o TimelineRecords("Start", perform.entries,
                                          perform.response.response_type)]

\* The records of the two callbacks handed to InitializeBuffer, which calls
\* them around an allocation: ActivityStartAll(entries, INIT_FUSION_BUFFER)
\* and ActivityEndAll(entries).
InitFusionBufferRecords(allocates, names) ==
  IF allocates
    THEN TimelineRecords("ActivityStart", names, "INIT_FUSION_BUFFER")
         \o TimelineRecords("ActivityEnd", names, "")
    ELSE << >>

\* if (entries.size() > 1): InitializeBuffer; a Status that is not ok ends
\* the timeline of every entry with nullptr, invokes every callback with
\* the Status and returns.
InitializeBuffer ==
  /\ PerformStep("started")
  /\ NeedsFusionBuffer(Len(perform.entries))
  /\ \E allocates \in BOOLEAN :
       IF perform.init_status # OK
         THEN perform' = [perform EXCEPT
                !.pc = "returned",
                !.initialized = @ + 1,
                !.status = perform.init_status,
                !.timeline = @ \o InitFusionBufferRecords(allocates, perform.entries)
                               \o TimelineRecords("End", perform.entries, "nullptr"),
                !.invoked = @ \o CallbackRecords(perform.entries, perform.init_status)]
         ELSE perform' = [perform EXCEPT
                !.pc = "buffered", !.initialized = @ + 1,
                !.timeline = @ \o InitFusionBufferRecords(allocates, perform.entries)]

\* A single entry needs no fusion buffer.
SkipInitializeBuffer ==
  /\ PerformStep("started")
  /\ ~NeedsFusionBuffer(Len(perform.entries))
  /\ perform' = [perform EXCEPT !.pc = "buffered"]

\* The entries with a ready_event are put on waiting_tensors, each after
\* timeline.ActivityStart(e.tensor_name, WAIT_FOR_DATA).
CollectWaitingTensors ==
  /\ PerformStep("buffered")
  /\ LET waiting == SelectSeq(perform.entries,
                              LAMBDA n : WaitsFor(perform.ready_event[n]))
     IN perform' = [perform EXCEPT
          !.pc = "while",
          !.waiting_tensors = waiting,
          !.timeline = @ \o TimelineRecords("ActivityStart", waiting, "WAIT_FOR_DATA")]

\* Mutant: no activity is ended after the wait.
EndsActivity_Never(ev) == FALSE

\* After the wait: if (e.ready_event != nullptr) timeline.ActivityEnd.
EndsActivity(ev) == ev # "nullptr"

\* while (!waiting_tensors.empty()); once it is empty, the activity of every
\* entry with a ready_event is ended.
WhileWaiting ==
  /\ PerformStep("while")
  /\ IF perform.waiting_tensors # << >>
       THEN perform' = [perform EXCEPT !.pc = "for", !.it = 1]
       ELSE perform' = [perform EXCEPT
              !.pc = "waited", !.it = 1,
              !.timeline = @ \o TimelineRecords("ActivityEnd",
                                  SelectSeq(perform.entries,
                                            LAMBDA n : EndsActivity(perform.ready_event[n])),
                                  "")]

\* One iteration of the for loop: if (it->ready_event->Ready()) the entry's
\* WAIT_FOR_DATA activity ends, WAIT_FOR_OTHER_TENSOR_DATA starts and the
\* entry is erased from waiting_tensors, else the iterator moves on.
PollReadyEvent ==
  /\ PerformStep("for")
  /\ perform.it <= Len(perform.waiting_tensors)
  /\ LET n == perform.waiting_tensors[perform.it]
     IN IF perform.ready_event[n] = "ready"
          THEN perform' = [perform EXCEPT
                 !.observed = @ \cup {n},
                 !.timeline = @ \o << << "ActivityEnd", n, "" >>,
                                      << "ActivityStart", n, "WAIT_FOR_OTHER_TENSOR_DATA" >> >>,
                 !.waiting_tensors =
                    SubSeq(@, 1, perform.it - 1) \o SubSeq(@, perform.it + 1, Len(@))]
          ELSE perform' = [perform EXCEPT !.it = @ + 1]

\* The end of a pass: sleep_for(100 ns), back to the while condition.
SleepFor ==
  /\ PerformStep("for")
  /\ perform.it > Len(perform.waiting_tensors)
  /\ perform' = [perform EXCEPT !.pc = "while"]

\* The device completes the work an entry's ready_event was recorded after.
ReadyEventCompletes(n) ==
  /\ perform.pc \notin {"none", "returned"}
  /\ UNCHANGED << runtime_vars, adasum, cache, api, manager, timeline, mutex >>
  /\ perform.ready_event[n] = "pending"
  /\ perform' = [perform EXCEPT !.ready_event[n] = "ready"]

\* status = op_manager->ExecuteOperation(entries, response), an exception
\* caught as an unknown error.
ExecuteAndCatch ==
  /\ PerformStep("waited")
  /\ \E status \in ExecuteOperation(perform.response) :
       perform' = [perform EXCEPT
         !.pc = "executed", !.executed = @ + 1, !.status = status]

\* if (!status.in_progress()): timeline.End and the callback of every entry.
CompleteEntries ==
  /\ PerformStep("executed")
  /\ LET done == SelectSeq(perform.entries,
                   LAMBDA n : n \in CompletedBy(perform.status, RangeOf(perform.entries)))
     IN perform' = [perform EXCEPT
          !.pc = "returned",
          !.timeline = @ \o TimelineRecords("End", done, TimelineOutput(perform.status)),
          !.invoked = @ \o CallbackRecords(done, perform.status)]

PerformThread ==
  \/ LockAndErase
  \/ TimelineStart
  \/ InitializeBuffer
  \/ SkipInitializeBuffer
  \/ CollectWaitingTensors
  \/ WhileWaiting
  \/ PollReadyEvent
  \/ SleepFor
  \/ ExecuteAndCatch
  \/ CompleteEntries

PerformNext ==
  \/ PerformThread
  \/ \E n \in RangeOf(PerformNames) : ReadyEventCompletes(n)

PerformSpec == PerformInit /\ [][PerformNext]_vars

\* The background thread keeps running; the device need not complete.
FairPerformSpec == PerformSpec /\ WF_vars(PerformThread)

\* ======================================= the operation manager's variants

\* CreateOperationManager under every build configuration (HAVE_CUDA,
\* HOROVOD_GPU_ALLREDUCE, HAVE_NCCL, HAVE_DDL, HAVE_GLOO, HAVE_MLSL) and
\* every state.cpu_operation, and one ExecuteOperation call: the manager
\* walks the list of the Response's type and executes the first op whose
\* Enabled returns true; an ERROR Response goes to the error op.
BuildConfigs ==
  [have_cuda : BOOLEAN, gpu_allreduce : {"M", "N", "D", "none"},
   have_nccl : BOOLEAN, have_ddl : BOOLEAN, have_gloo : BOOLEAN,
   have_mlsl : BOOLEAN, cpu_operation : {"MPI", "GLOO", "MLSL"}]

\* The sequence seq if cond holds, else nothing: a push_back under #if / if.
PushBackIf(cond, seq) == IF cond THEN seq ELSE << >>

\* The default operations.
DefaultOps == [allreduce_ops |-> "MPIAllreduce", allgather_ops |-> "MPIAllgather",
               broadcast_ops |-> "MPIBroadcast"]

\* Mutant: the default operations are registered first.
CreateOperationManager_DefaultFirst(c) ==
  [allreduce_ops |->
     << DefaultOps.allreduce_ops >>
     \o PushBackIf(c.have_gloo /\ c.cpu_operation = "GLOO", << "GlooAllreduce" >>),
   allgather_ops |->
     << DefaultOps.allgather_ops >>
     \o PushBackIf(c.have_gloo /\ c.cpu_operation = "GLOO", << "GlooAllgather" >>),
   broadcast_ops |->
     << DefaultOps.broadcast_ops >>
     \o PushBackIf(c.have_gloo /\ c.cpu_operation = "GLOO", << "GlooBroadcast" >>)]

\* CreateOperationManager: the three lists in registration order.
CreateOperationManager(c) ==
  LET gpu == c.have_cuda /\ c.gpu_allreduce # "M"
      nccl == gpu /\ c.have_nccl /\ c.gpu_allreduce = "N"
      ddl == gpu /\ ~nccl /\ c.have_ddl /\ c.gpu_allreduce = "D"
      gloo == c.have_gloo /\ c.cpu_operation = "GLOO"
      mlsl == c.have_mlsl /\ c.cpu_operation = "MLSL"
  IN [allreduce_ops |->
        PushBackIf(c.have_cuda /\ c.gpu_allreduce = "M", << "MPI_CUDAAllreduce" >>)
        \o PushBackIf(nccl, << "NCCLHierarchicalAllreduce", "NCCLAllreduce" >>)
        \o PushBackIf(ddl, << "DDLAllreduce" >>)
        \o PushBackIf(gloo, << "GlooAllreduce" >>)
        \o PushBackIf(mlsl, << "MLSLAllreduce" >>)
        \o << DefaultOps.allreduce_ops >>,
      allgather_ops |->
        PushBackIf(gpu, << "MPIHierarchicalAllgather" >>)
        \o PushBackIf(gloo, << "GlooAllgather" >>)
        \o PushBackIf(mlsl, << "MLSLAllgather" >>)
        \o << DefaultOps.allgather_ops >>,
      broadcast_ops |->
        PushBackIf(gloo, << "GlooBroadcast" >>)
        \o PushBackIf(mlsl, << "MLSLBroadcast" >>)
        \o << DefaultOps.broadcast_ops >>]

\* The list the manager walks for a Response type.
OpsFor(response_type) ==
  IF response_type = "ALLREDUCE" THEN "allreduce_ops"
  ELSE IF response_type = "ALLGATHER" THEN "allgather_ops"
  ELSE "broadcast_ops"

\* Mutant: a default operation may be disabled.
EnabledOutcomes_Any(op) == BOOLEAN

\* What op->Enabled(param_manager, entries, response) may return: a default
\* operation is always enabled, any other depends on the entries and the
\* parameters.
EnabledOutcomes(op) ==
  IF op \in {DefaultOps.allreduce_ops, DefaultOps.allgather_ops, DefaultOps.broadcast_ops}
    THEN {TRUE} ELSE BOOLEAN

ManagerInit ==
  /\ RuntimeInit
  /\ adasum = NoAdasum
  /\ cache = NoCache
  /\ api = NoApi
  /\ perform = NoPerform
  /\ timeline = NoTimeline
  /\ mutex = NoMutex
  /\ \E c \in BuildConfigs,
        t \in {"ALLREDUCE", "ALLGATHER", "BROADCAST", "ERROR"} :
       manager = [pc |-> "start", config |-> c, response_type |-> t,
                  ops |-> [allreduce_ops |-> << >>, allgather_ops |-> << >>,
                           broadcast_ops |-> << >>],
                  checked |-> << >>, executed |-> << >>]

ManagerStep(from) ==
  /\ manager.pc = from
  /\ UNCHANGED << runtime_vars, adasum, cache, api, perform, timeline, mutex >>

\* BackgroundThreadLoop: op_manager.reset(CreateOperationManager(state)).
CreateManager ==
  /\ ManagerStep("start")
  /\ manager' = [manager EXCEPT !.pc = "created",
                                !.ops = CreateOperationManager(manager.config)]

\* ExecuteOperation for an ERROR Response: the error op.
ExecuteError ==
  /\ ManagerStep("created")
  /\ manager.response_type = "ERROR"
  /\ manager' = [manager EXCEPT !.pc = "executed", !.executed = << "ErrorOp" >>]

\* The scan: the next op of the list is asked whether it is enabled; the
\* first that is gets executed and the scan ends.
ExecuteFirstEnabled ==
  /\ ManagerStep("created")
  /\ manager.response_type # "ERROR"
  /\ LET list == manager.ops[OpsFor(manager.response_type)]
         i == Len(manager.checked) + 1
     IN /\ i <= Len(list)
        /\ \E e \in EnabledOutcomes(list[i]) :
             manager' = [manager EXCEPT
               !.checked = Append(@, << list[i], e >>),
               !.executed = IF e THEN Append(@, list[i]) ELSE @,
               !.pc = IF e THEN "executed" ELSE "created"]

ManagerNext ==
  \/ CreateManager
  \/ ExecuteError
  \/ ExecuteFirstEnabled

ManagerSpec == ManagerInit /\ [][ManagerNext]_vars

\* =========================================================== the timeline

\* The Timeline object of timeline.cc: initialized_, the state of file_ (open
\* or not, good or not), what has reached the file, and tensor_table_. The
\* calls are Initialize and the hooks; a write can fail at any point, after
\* which the stream is not good and takes nothing more.
MaxTimelineCalls == 3

\* The hooks with the op_name and the phase they hand to WriteEvent.
Hooks ==
  { << "NegotiateStart", "NEGOTIATE", "B" >>, << "NegotiateRankReady", "rank", "X" >>,
    << "NegotiateEnd", "NEGOTIATE", "E" >>, << "Start", "RESPONSE", "B" >>,
    << "WaitForDataStart", "WAIT_FOR_DATA", "B" >>, << "WaitForDataEnd", "WAIT_FOR_DATA", "E" >>,
    << "NcclInitStart", "NCCL_INIT", "B" >>, << "NcclInitEnd", "NCCL_INIT", "E" >>,
    << "QueueStart", "QUEUE", "B" >>, << "QueueEnd", "QUEUE", "E" >>,
    << "ProcessStart", "PROCESS", "B" >>, << "ProcessEnd", "PROCESS", "E" >>,
    << "End", "RESPONSE", "E" >> }

\* A freshly constructed Timeline: initialized_ is false, file_ is closed and
\* its state is goodbit.
TimelineInit ==
  /\ RuntimeInit
  /\ adasum = NoAdasum
  /\ cache = NoCache
  /\ api = NoApi
  /\ perform = NoPerform
  /\ manager = NoManager
  /\ mutex = NoMutex
  /\ timeline = [pc |-> "constructed", initialized |-> FALSE, is_open |-> FALSE,
                 good |-> TRUE, file |-> << >>, tensor_table |-> << >>,
                 calls |-> 0, last |-> "none"]

\* The first n of the records reach the file; fewer than all of them when a
\* write fails, and none on a stream that is not open or not good.
FileWrite(t, records, n) ==
  IF t.is_open /\ t.good
    THEN [t EXCEPT !.file = @ \o SubSeq(records, 1, n), !.good = (n = Len(records))]
    ELSE [t EXCEPT !.good = FALSE]

\* One call on the timeline.
TimelineCall(name) ==
  /\ timeline.calls < MaxTimelineCalls
  /\ UNCHANGED << runtime_vars, adasum, cache, api, perform, manager, mutex >>

\* The call returns with the timeline object t.
TimelineReturn(name, t) ==
  timeline' = [t EXCEPT !.calls = timeline.calls + 1, !.last = name, !.pc = "called"]

\* Timeline::Initialize: open fails on a stream that is already open, and may
\* fail on any other; a successful open clears the state.
TimelineInitialize ==
  /\ TimelineCall("Initialize")
  /\ \E opens \in (IF timeline.is_open THEN {FALSE} ELSE BOOLEAN), n \in 0..1 :
       LET opened == IF opens THEN [timeline EXCEPT !.is_open = TRUE, !.good = TRUE]
                              ELSE [timeline EXCEPT !.good = FALSE]
       IN TimelineReturn("Initialize",
            IF opened.good
              THEN [FileWrite(opened, << << "[", "", "" >> >>, n) EXCEPT !.initialized = TRUE]
              ELSE opened)

\* The index of a tensor in tensor_table_, 0 if it has none.
TensorIdx(table, tensor_name) ==
  IF \E i \in 1..Len(table) : table[i] = tensor_name
    THEN CHOOSE i \in 1..Len(table) : table[i] = tensor_name
    ELSE 0

\* The records of one event: the two metadata records of a tensor seen for
\* the first time, then the event.
EventRecords(table, tensor_name, op_name, phase) ==
  (IF TensorIdx(table, tensor_name) = 0
     THEN << << "process_name", "M", tensor_name >>,
             << "process_sort_index", "M", tensor_name >> >>
     ELSE << >>)
  \o << << op_name, phase, tensor_name >> >>

\* Mutant: WriteEvent goes on whatever the state of the stream.
WriteEventReturns_Never(t) == FALSE

\* Timeline::WriteEvent: if (!file_.good()) return.
WriteEventReturns(t) == ~t.good

\* Timeline::WriteEvent: n of the event's records reach the file.
WriteEvent(t, tensor_name, op_name, phase, n) ==
  IF WriteEventReturns(t) THEN t
  ELSE LET records == EventRecords(t.tensor_table, tensor_name, op_name, phase)
           registered == IF TensorIdx(t.tensor_table, tensor_name) = 0
                           THEN [t EXCEPT !.tensor_table = Append(@, tensor_name)]
                           ELSE t
       IN FileWrite(registered, records, IF n < Len(records) THEN n ELSE Len(records))

\* Mutant: the hooks do not look at initialized_.
HookReturns_Never(t) == FALSE

\* Every hook: if (!initialized_) return.
HookReturns(t) == ~t.initialized

\* NegotiateStart, NegotiateRankReady, NegotiateEnd, Start, WaitForData*,
\* NcclInit*, Queue*, Process*, End.
TimelineHook ==
  \E h \in Hooks, tensor_name \in {"a", "b"}, n \in 0..3 :
    /\ TimelineCall(h[1])
    /\ TimelineReturn(h[1],
         IF HookReturns(timeline) THEN timeline
         ELSE WriteEvent(timeline, tensor_name, h[2], h[3], n))

TimelineNext ==
  \/ TimelineInitialize
  \/ TimelineHook

TimelineSpec == TimelineInit /\ [][TimelineNext]_vars

\* ================================================ horovod_global.mutex

\* The threads of one process at the granularity of the statements that
\* lock, unlock and touch tensor_table and message_queue: producer threads
\* in EnqueueTensor*, a thread in horovod_shutdown, a thread in horovod_init
\* after it, and the background thread in RunLoopOnce, PerformOperation and
\* the shutdown drain. A completion
\* callback runs on the background thread and may itself call EnqueueTensor*.
MaxEnqueues == 1
MaxReentries == 1
MaxStarts == 2

ProducerThreads == {"p1", "p2"}
BackgroundThread == "bg"
MutexThreads == ProducerThreads \cup {BackgroundThread}

\* The positions of a thread inside EnqueueTensor* at which it reads or
\* writes tensor_table or message_queue.
EnqueueAccesses == {"find", "emplace", "push"}

\* The positions of the background thread at which it reads or writes them.
BackgroundAccesses == {"pop", "tune", "erase", "drain"}

\* The positions of the background thread at which it invokes callbacks.
CallbackPositions == {"callbacks", "drain_callbacks"}

MutexInit ==
  /\ RuntimeInit
  /\ adasum = NoAdasum
  /\ cache = NoCache
  /\ api = NoApi
  /\ perform = NoPerform
  /\ manager = NoManager
  /\ timeline = NoTimeline
  /\ mutex = [pc |-> "loop", owner |-> "none", shut_down |-> FALSE,
              tensor_table |-> {}, message_queue |-> << >>,
              pending |-> {}, response |-> {}, callbacks |-> 0,
              enq |-> [t \in MutexThreads |-> "idle"],
              name |-> [t \in MutexThreads |-> ""],
              result |-> [t \in MutexThreads |-> "none"],
              calls |-> [t \in MutexThreads |-> 0],
              app |-> "start", initialize_flag |-> TRUE, starts |-> 1]

MutexStep ==
  /\ mutex.pc # "none"
  /\ UNCHANGED << runtime_vars, adasum, cache, api, perform, manager, timeline >>

\* Mutant: the guard does not take the mutex.
LockGuard_None(m, t) == m

\* std::lock_guard<std::mutex> guard(horovod_global.mutex): constructed.
LockGuard(m, t) == [m EXCEPT !.owner = t]

\* The guard goes out of scope.
Unlock(m, t) == IF m.owner = t THEN [m EXCEPT !.owner = "none"] ELSE m

\* The mutex can be taken: a thread that holds it already waits for itself.
CanLock == mutex.owner = "none"

\* A thread enters EnqueueTensor*: a producer thread, or the background
\* thread from inside a callback.
EnqueueCall(t) ==
  /\ MutexStep
  /\ mutex.enq[t] = "idle"
  /\ IF t = BackgroundThread
       THEN mutex.pc \in CallbackPositions /\ mutex.callbacks > 0
            /\ mutex.calls[t] < MaxReentries
       ELSE mutex.calls[t] < MaxEnqueues
  /\ \E n \in Names :
       mutex' = [mutex EXCEPT !.enq[t] = "lock", !.name[t] = n,
                              !.result[t] = "none", !.calls[t] = @ + 1]

\* operations.cc:723.
EnqueueLock(t) ==
  /\ MutexStep
  /\ mutex.enq[t] = "lock"
  /\ CanLock
  /\ mutex' = [LockGuard(mutex, t) EXCEPT !.enq[t] = "check"]

\* operations.cc:724-726.
EnqueueCheckShutDown(t) ==
  /\ MutexStep
  /\ mutex.enq[t] = "check"
  /\ mutex' = IF mutex.shut_down
                THEN [mutex EXCEPT !.enq[t] = "unlock", !.result[t] = SHUT_DOWN_ERROR]
                ELSE [mutex EXCEPT !.enq[t] = "find"]

\* operations.cc:727-730.
EnqueueFind(t) ==
  /\ MutexStep
  /\ mutex.enq[t] = "find"
  /\ mutex' = IF mutex.name[t] \in mutex.tensor_table
                THEN [mutex EXCEPT !.enq[t] = "unlock", !.result[t] = DUPLICATE_NAME_ERROR]
                ELSE [mutex EXCEPT !.enq[t] = "emplace"]

\* operations.cc:731.
EnqueueEmplace(t) ==
  /\ MutexStep
  /\ mutex.enq[t] = "emplace"
  /\ mutex' = [mutex EXCEPT !.enq[t] = "push", !.tensor_table = @ \cup {mutex.name[t]}]

\* operations.cc:732-734.
EnqueuePush(t) ==
  /\ MutexStep
  /\ mutex.enq[t] = "push"
  /\ mutex' = [mutex EXCEPT !.enq[t] = "unlock", !.result[t] = OK,
                            !.message_queue = Append(@, mutex.name[t])]

\* The return: the guard is destroyed.
EnqueueReturn(t) ==
  /\ MutexStep
  /\ mutex.enq[t] = "unlock"
  /\ mutex' = [Unlock(mutex, t) EXCEPT !.enq[t] = "returned"]

\* The caller goes on; on the background thread the callback returns.
EnqueueDone(t) ==
  /\ MutexStep
  /\ mutex.enq[t] = "returned"
  /\ mutex' = [mutex EXCEPT !.enq[t] = "idle",
                            !.callbacks = IF t = BackgroundThread THEN @ - 1 ELSE @]

EnqueueThread(t) ==
  \/ EnqueueCall(t)
  \/ EnqueueLock(t)
  \/ EnqueueCheckShutDown(t)
  \/ EnqueueFind(t)
  \/ EnqueueEmplace(t)
  \/ EnqueuePush(t)
  \/ EnqueueReturn(t)
  \/ EnqueueDone(t)

\* The background thread moves from one position to the next.
BackgroundStep(from) ==
  /\ MutexStep
  /\ mutex.pc = from
  /\ mutex.enq[BackgroundThread] = "idle"

\* The background thread takes the mutex at a lock_guard.
BackgroundLock(from, to) ==
  /\ BackgroundStep(from)
  /\ CanLock
  /\ mutex' = [LockGuard(mutex, BackgroundThread) EXCEPT !.pc = to]

\* The background thread leaves the scope of a lock_guard.
BackgroundUnlock(from, to) ==
  /\ BackgroundStep(from)
  /\ mutex' = [Unlock(mutex, BackgroundThread) EXCEPT !.pc = to]

\* RunLoopOnce, ComputeResponseList: the requests are taken off
\* message_queue under the mutex.
PopMessageQueue ==
  \/ BackgroundLock("loop", "pop")
  \/ /\ BackgroundStep("pop")
     /\ mutex' = [mutex EXCEPT !.pc = "popped", !.message_queue = << >>,
                               !.pending = @ \cup RangeOf(mutex.message_queue)]
  \/ BackgroundUnlock("popped", "negotiate")

\* ComputeResponseList returns a Response for some of the pending names, or
\* none, or the decision to shut down.
NegotiateOutcome ==
  \/ \E names \in SUBSET mutex.pending :
       /\ BackgroundStep("negotiate")
       /\ mutex' = [mutex EXCEPT !.pc = IF names = {} THEN "loop" ELSE "respond",
                                 !.response = names, !.pending = @ \ names]
  \/ /\ BackgroundStep("negotiate")
     /\ mutex' = [mutex EXCEPT !.pc = "signal"]

\* RunLoopOnce 576-580: the autotuner's lookup, when it is tuning.
AutotunerLookup ==
  \/ BackgroundLock("respond", "tune")
  \/ /\ BackgroundStep("tune")
     /\ mutex.response \subseteq mutex.tensor_table
     /\ mutex' = [mutex EXCEPT !.pc = "tuned"]
  \/ BackgroundUnlock("tuned", "perform")
  \/ /\ BackgroundStep("respond")
     /\ mutex' = [mutex EXCEPT !.pc = "perform"]

\* PerformOperation 243-262: the entries leave tensor_table under the mutex.
PerformLockAndErase ==
  \/ BackgroundLock("perform", "erase")
  \/ /\ BackgroundStep("erase")
     /\ mutex' = [mutex EXCEPT !.pc = "erased", !.tensor_table = @ \ mutex.response,
                               !.callbacks = Cardinality(mutex.response)]
  \/ BackgroundUnlock("erased", "callbacks")

\* A callback that does not call back into EnqueueTensor*.
InvokeCallback ==
  /\ mutex.pc \in CallbackPositions
  /\ BackgroundStep(mutex.pc)
  /\ mutex.callbacks > 0
  /\ mutex' = [mutex EXCEPT !.callbacks = @ - 1]

\* PerformOperation 322-327 is through: back to the loop.
PerformReturn ==
  /\ BackgroundStep("callbacks")
  /\ mutex.callbacks = 0
  /\ mutex' = [mutex EXCEPT !.pc = "loop", !.response = {}]

\* Mutant: shut_down is left as it is.
ShutDownRequested_Skip(m) == m

\* state.shut_down = true.
ShutDownRequested(m) == [m EXCEPT !.shut_down = TRUE]

\* BackgroundThreadLoop 526-543: the flag, the drain under the mutex, then
\* the callbacks.
ShutDownDrain ==
  \/ /\ BackgroundStep("signal")
     /\ mutex' = [ShutDownRequested(mutex) EXCEPT !.pc = "drain_lock"]
  \/ BackgroundLock("drain_lock", "drain")
  \/ /\ BackgroundStep("drain")
     /\ mutex' = [mutex EXCEPT !.pc = "drained", !.callbacks = Cardinality(mutex.tensor_table),
                               !.tensor_table = {}, !.message_queue = << >>,
                               !.pending = {}]
  \/ BackgroundUnlock("drained", "drain_callbacks")
  \/ /\ BackgroundStep("drain_callbacks")
     /\ mutex.callbacks = 0
     /\ mutex' = [mutex EXCEPT !.pc = "done"]

\* horovod_shutdown on an application thread: the flag, the join, then
\* initialize_flag.clear() and shut_down = false, with no lock.
ShutdownCaller ==
  \/ /\ MutexStep
     /\ mutex.app = "start"
     /\ mutex' = [ShutDownRequested(mutex) EXCEPT !.app = "join"]
  \/ /\ MutexStep
     /\ mutex.app = "join"
     /\ mutex.pc = "done"
     /\ mutex' = [mutex EXCEPT !.app = "cleared", !.initialize_flag = FALSE]
  \/ /\ MutexStep
     /\ mutex.app = "cleared"
     /\ mutex' = [mutex EXCEPT !.app = "returned", !.shut_down = FALSE]

\* horovod_init on another thread once initialize_flag is clear:
\* InitializeHorovodOnce starts the next background thread.
InitCaller ==
  /\ MutexStep
  /\ ~mutex.initialize_flag
  /\ mutex.starts < MaxStarts
  /\ mutex' = [mutex EXCEPT !.initialize_flag = TRUE, !.starts = @ + 1,
                            !.pc = "loop", !.pending = {}, !.response = {}]

MutexBackground ==
  \/ PopMessageQueue
  \/ NegotiateOutcome
  \/ AutotunerLookup
  \/ PerformLockAndErase
  \/ InvokeCallback
  \/ PerformReturn
  \/ ShutDownDrain

MutexNext ==
  \/ \E t \in MutexThreads : EnqueueThread(t)
  \/ MutexBackground
  \/ ShutdownCaller
  \/ InitCaller

MutexSpec == MutexInit /\ [][MutexNext]_vars

\* ================================== lifecycle calls from several threads

\* One process whose horovod_init / horovod_init_comm / horovod_shutdown are
\* called from several threads.  The calls are not atomic: horovod_shutdown
\* reads background_thread.joinable(), writes shut_down, joins, clears
\* initialize_flag and writes shut_down, with no lock around them;
\* InitializeHorovodOnce does test_and_set and then assigns background_thread.
\* The process is a job of its own, so its background thread leaves its loop
\* as soon as it sees shut_down.
MaxCallers == 3
MaxApiCalls == 5
MaxThreads == 3

Callers == 1 .. MaxCallers

\* No call of CheckInitialized or horovod_rank has just returned.
NoResult == [call |-> "none"]

\* controller->GetRank() of the process.
GetRank == 0

\* background_thread is the std::thread object (0: not joinable, else the id
\* of the thread it owns); threads[t] is the position of the t-th thread
\* that runs BackgroundThreadLoop.
ApiInit ==
  /\ RuntimeInit
  /\ adasum = NoAdasum
  /\ cache = NoCache
  /\ perform = NoPerform
  /\ NoMore
  /\ api = [pc |-> "run",
            initialize_flag |-> FALSE,
            initialization_done |-> FALSE,
            shut_down |-> FALSE,
            background_thread |-> 0,
            threads |-> << >>,
            at |-> [c \in Callers |-> "idle"],
            joined |-> [c \in Callers |-> 0],
            result |-> [c \in Callers |-> NoResult],
            ncalls |-> 0,
            won |-> 0,
            called |-> [c \in Callers |-> 0]]

ApiStep(c, from) ==
  /\ api.pc = "run"
  /\ api.at[c] = from

\* InitializeHorovodOnce: initialize_flag.test_and_set().  won counts the
\* calls that found the flag clear, and called[c] is the count at c's call:
\* the initialization that c's call waits for.
TestAndSet(c) ==
  /\ ApiStep(c, "idle")
  /\ api.ncalls < MaxApiCalls
  /\ LET won == IF api.initialize_flag THEN api.won ELSE api.won + 1
     IN api' = [api EXCEPT !.ncalls = @ + 1,
                           !.initialize_flag = TRUE,
                           !.won = won,
                           !.called[c] = won,
                           !.at[c] = IF api.initialize_flag THEN "wait" ELSE "start"]
  /\ UNCHANGED << runtime_vars, adasum, cache, perform, manager, timeline, mutex >>

\* InitializeHorovodOnce: initialization_done = false; background_thread =
\* std::thread(BackgroundThreadLoop, ...).  The new thread runs from its
\* construction; the move assignment to a std::thread that is still joinable
\* calls std::terminate.
StartBackgroundThread(c) ==
  /\ ApiStep(c, "start")
  /\ Len(api.threads) < MaxThreads
  /\ api' = [api EXCEPT !.initialization_done = FALSE,
                         !.threads = Append(@, "init"),
                         !.background_thread = Len(api.threads) + 1,
                         !.pc = IF api.background_thread # 0 THEN "terminated" ELSE "run",
                         !.at[c] = "wait"]
  /\ UNCHANGED << runtime_vars, adasum, cache, perform, manager, timeline, mutex >>

\* InitializeHorovodOnce: while (!initialization_done) sleep.
WaitInitializationDone(c) ==
  /\ ApiStep(c, "wait")
  /\ api.initialization_done
  /\ api' = [api EXCEPT !.at[c] = "idle", !.called[c] = 0]
  /\ UNCHANGED << runtime_vars, adasum, cache, perform, manager, timeline, mutex >>

\* horovod_shutdown: if (background_thread.joinable()).
Joinable(c) ==
  /\ ApiStep(c, "idle")
  /\ api.ncalls < MaxApiCalls
  /\ api' = [api EXCEPT !.ncalls = @ + 1,
                         !.at[c] = IF api.background_thread # 0 THEN "set" ELSE "idle"]
  /\ UNCHANGED << runtime_vars, adasum, cache, perform, manager, timeline, mutex >>

\* horovod_shutdown: shut_down = true.
SetShutDown(c) ==
  /\ ApiStep(c, "set")
  /\ api' = [api EXCEPT !.shut_down = TRUE, !.at[c] = "join"]
  /\ UNCHANGED << runtime_vars, adasum, cache, perform, manager, timeline, mutex >>

\* The outcomes of background_thread.join().  join() of a std::thread that
\* is not joinable throws std::system_error, which leaves the extern "C"
\* function and ends the process.  join() while another caller joins the
\* same thread is a data race on the std::thread object, undefined
\* behaviour: the call may end the process or wait for the thread as well.
JoinOutcomes(c) ==
  IF api.background_thread = 0
    THEN {"terminated"}
    ELSE IF \E d \in Callers \ {c} : /\ api.at[d] = "joining"
                                     /\ api.joined[d] = api.background_thread
           THEN {"terminated", "joining"}
           ELSE {"joining"}

\* horovod_shutdown: background_thread.join() is called.
JoinBegin(c) ==
  /\ ApiStep(c, "join")
  /\ \E outcome \in JoinOutcomes(c) :
       api' = [api EXCEPT !.pc = IF outcome = "terminated" THEN "terminated" ELSE "run",
                          !.joined[c] = api.background_thread,
                          !.at[c] = "joining"]
  /\ UNCHANGED << runtime_vars, adasum, cache, perform, manager, timeline, mutex >>

\* horovod_shutdown: background_thread.join() returns once the joined thread
\* has ended, and leaves the std::thread object not joinable.
JoinEnd(c) ==
  /\ ApiStep(c, "joining")
  /\ api.threads[api.joined[c]] = "exited"
  /\ api' = [api EXCEPT !.background_thread = 0,
                         !.joined[c] = 0,
                         !.at[c] = "clear"]
  /\ UNCHANGED << runtime_vars, adasum, cache, perform, manager, timeline, mutex >>

\* horovod_shutdown: initialize_flag.clear().
ClearInitializeFlag(c) ==
  /\ ApiStep(c, "clear")
  /\ api' = [api EXCEPT !.initialize_flag = FALSE, !.at[c] = "reset"]
  /\ UNCHANGED << runtime_vars, adasum, cache, perform, manager, timeline, mutex >>

\* horovod_shutdown: shut_down = false.
ResetShutDown(c) ==
  /\ ApiStep(c, "reset")
  /\ api' = [api EXCEPT !.shut_down = FALSE, !.at[c] = "idle"]
  /\ UNCHANGED << runtime_vars, adasum, cache, perform, manager, timeline, mutex >>

\* CheckInitialized: NOT_INITIALIZED_ERROR if !initialization_done, else OK.
CheckInitialized(c) ==
  /\ ApiStep(c, "idle")
  /\ api' = [api EXCEPT
       !.result[c] = [call |-> "CheckInitialized",
                      status |-> IF ~api.initialization_done
                                   THEN NOT_INITIALIZED_ERROR ELSE OK],
       !.at[c] = "returned"]
  /\ UNCHANGED << runtime_vars, adasum, cache, perform, manager, timeline, mutex >>

\* horovod_rank (and horovod_local_rank, horovod_size, horovod_local_size):
\* -1 if !initialization_done, else the controller's value.
horovod_rank(c) ==
  /\ ApiStep(c, "idle")
  /\ api' = [api EXCEPT
       !.result[c] = [call |-> "horovod_rank",
                      value |-> IF ~api.initialization_done THEN -1 ELSE GetRank],
       !.at[c] = "returned"]
  /\ UNCHANGED << runtime_vars, adasum, cache, perform, manager, timeline, mutex >>

\* The caller has its result and goes on.
Returned(c) ==
  /\ ApiStep(c, "returned")
  /\ api' = [api EXCEPT !.result[c] = NoResult, !.at[c] = "idle"]
  /\ UNCHANGED << runtime_vars, adasum, cache, perform, manager, timeline, mutex >>

\* BackgroundThreadLoop: initialization_done = true, then the loop.
ThreadInitialized(t) ==
  /\ api.pc = "run"
  /\ t \in 1 .. Len(api.threads)
  /\ api.threads[t] = "init"
  /\ api' = [api EXCEPT !.initialization_done = TRUE, !.threads[t] = "loop"]
  /\ UNCHANGED << runtime_vars, adasum, cache, perform, manager, timeline, mutex >>

\* BackgroundThreadLoop: RunLoopOnce returns false once shut_down is seen;
\* the thread sets shut_down and returns.
ThreadExit(t) ==
  /\ api.pc = "run"
  /\ t \in 1 .. Len(api.threads)
  /\ api.threads[t] = "loop"
  /\ api.shut_down
  /\ api' = [api EXCEPT !.shut_down = TRUE, !.threads[t] = "exited"]
  /\ UNCHANGED << runtime_vars, adasum, cache, perform, manager, timeline, mutex >>

ApiCaller(c) ==
  \/ TestAndSet(c)
  \/ StartBackgroundThread(c)
  \/ WaitInitializationDone(c)
  \/ Joinable(c)
  \/ SetShutDown(c)
  \/ JoinBegin(c)
  \/ JoinEnd(c)
  \/ ClearInitializeFlag(c)
  \/ ResetShutDown(c)
  \/ CheckInitialized(c)
  \/ horovod_rank(c)
  \/ Returned(c)

ApiThread(t) ==
  \/ ThreadInitialized(t)
  \/ ThreadExit(t)

ApiNext ==
  \/ \E c \in Callers : ApiCaller(c)
  \/ \E t \in 1 .. MaxThreads : ApiThread(t)

ApiSpec == ApiInit /\ [][ApiNext]_vars

\* The threads that run BackgroundThreadLoop.
BackgroundThreads == { t \in 1 .. Len(api.threads) : api.threads[t] # "exited" }

\* =========================================================== response cache

\* The Response Cache of a job: every rank keeps a cache from the fingerprint
\* of a fused set of names to the Response agreed for it.  In a cycle every
\* rank proposes the fingerprint of its pending names, the coordinator looks
\* it up and broadcasts its decision, and every rank adopts the decision.
MaxCapacity == 2
MaxCycles == 3

\* state.cache_capacity before HOROVOD_CACHE_CAPACITY is read.
DefaultCacheCapacity == 1024

\* HOROVOD_CACHE_CAPACITY: not set (the empty sequence), or a number.
CacheCapacityEnv == { << >> } \cup { << n >> : n \in 0 .. MaxCapacity }

\* parameter_manager.SetCacheEnabled(true); with the variable set,
\* SetCacheEnabled(cache_capacity > 0, true).
CacheEnabled(env) == IF env = << >> THEN TRUE ELSE env[1] > 0

\* response_cache.set_capacity((int)CacheEnabled() * state.cache_capacity).
CacheCapacity(env) ==
  (IF CacheEnabled(env) THEN 1 ELSE 0)
    * (IF env = << >> THEN DefaultCacheCapacity ELSE env[1])

\* The pending names of a cycle, in the order in which they became ready.
NameSets == { << "a" >>, << "b" >>, << "a", "b" >>, << "b", "a" >> }

CacheAttrs ==
  { attrs \in RequestAttrs :
      attrs.request_type = "ALLREDUCE" /\ attrs.tensor_shape = 1 }

SortedNames == << "a", "b" >>

\* The names in their canonical order.
Canonical(names) ==
  SelectSeq(SortedNames, LAMBDA n : \E i \in 1 .. Len(names) : names[i] = n)

\* The key of a cache entry: the ordered name set and the attributes.
Fingerprint(names, attrs) ==
  [tensor_names |-> Canonical(names),
   request_type |-> attrs.request_type,
   tensor_type |-> attrs.tensor_type,
   tensor_shape |-> attrs.tensor_shape]

\* The Response a full negotiation of the names agrees on.
NegotiatedResponse(names, attrs) ==
  [response_type |-> attrs.request_type,
   tensor_names |-> names,
   tensor_type |-> attrs.tensor_type,
   tensor_size |-> Len(names) * attrs.tensor_shape * ElementSize(attrs.tensor_type)]

NoResponse == [response_type |-> "NONE", tensor_names |-> << >>,
               tensor_type |-> "none", tensor_size |-> 0]

NoKey == [tensor_names |-> << >>, request_type |-> "NONE",
          tensor_type |-> "none", tensor_shape |-> 0]

Cached(stored, key) == \E i \in 1 .. Len(stored) : stored[i].key = key

Lookup(stored, key) ==
  (CHOOSE e \in { stored[i] : i \in 1 .. Len(stored) } : e.key = key).response

\* A hit makes the entry the most recently used one.
Touch(stored, key) ==
  SelectSeq(stored, LAMBDA e : e.key # key)
    \o SelectSeq(stored, LAMBDA e : e.key = key)

\* A miss stores the Response; a full cache drops its least recently used
\* entry; a cache of capacity 0 stores nothing.
Put(stored, key, response, capacity) ==
  IF capacity = 0
    THEN stored
    ELSE (IF Len(stored) >= capacity THEN Tail(stored) ELSE stored)
           \o << [key |-> key, response |-> response] >>

\* Mutant: the coordinator negotiates every set afresh.
CacheDecision_Renegotiate(stored, names, attrs) ==
  [hit |-> FALSE, response |-> NegotiatedResponse(names, attrs)]

\* The decision of the coordinator: the cached Response for a fingerprint it
\* has cached, else the Response of a full negotiation.
CacheDecision(stored, names, attrs) ==
  IF Cached(stored, Fingerprint(names, attrs))
    THEN [hit |-> TRUE, response |-> Lookup(stored, Fingerprint(names, attrs))]
    ELSE [hit |-> FALSE, response |-> NegotiatedResponse(names, attrs)]

CacheInit ==
  /\ RuntimeInit
  /\ adasum = NoAdasum
  /\ api = NoApi
  /\ perform = NoPerform
  /\ NoMore
  /\ \E env \in CacheCapacityEnv :
       cache = [pc |-> "idle",
                capacity |-> CacheCapacity(env),
                entries |-> [r \in Ranks |-> << >>],
                names |-> << >>,
                attrs |-> NoKey,
                proposed |-> [r \in Ranks |-> NoKey],
                decision |-> [hit |-> FALSE, response |-> NoResponse],
                adopted |-> [r \in Ranks |-> "none"],
                returned |-> [r \in Ranks |-> NoResponse],
                previous |-> [key |-> NoKey, response |-> NoResponse],
                cycles |-> 0]

\* A cycle starts with the names that became ready on every rank.
StartCycle(names, attrs) ==
  /\ cache.pc = "idle"
  /\ cache.cycles < MaxCycles
  /\ cache' = [cache EXCEPT
        !.pc = "proposing",
        !.names = names,
        !.attrs = attrs,
        !.proposed = [r \in Ranks |-> NoKey],
        !.adopted = [r \in Ranks |-> "none"],
        !.returned = [r \in Ranks |-> NoResponse],
        !.previous = IF cache.cycles = 0
                       THEN @
                       ELSE [key |-> Fingerprint(cache.names, cache.attrs),
                             response |-> cache.returned[Coordinator]],
        !.cycles = @ + 1]
  /\ UNCHANGED << runtime_vars, adasum, api, perform, manager, timeline, mutex >>

\* A rank proposes the fingerprint of its pending names.
Propose(r) ==
  /\ cache.pc = "proposing"
  /\ cache.proposed[r] = NoKey
  /\ cache' = [cache EXCEPT !.proposed[r] = Fingerprint(cache.names, cache.attrs)]
  /\ UNCHANGED << runtime_vars, adasum, api, perform, manager, timeline, mutex >>

\* The coordinator has every proposal, decides and broadcasts its decision.
Decide ==
  /\ cache.pc = "proposing"
  /\ \A r \in Ranks : cache.proposed[r] # NoKey
  /\ cache' = [cache EXCEPT
        !.pc = "decided",
        !.decision = CacheDecision(cache.entries[Coordinator], cache.names, cache.attrs)]
  /\ UNCHANGED << runtime_vars, adasum, api, perform, manager, timeline, mutex >>

\* A rank takes the broadcast decision and updates its cache.
Adopt(r) ==
  /\ cache.pc = "decided"
  /\ cache.adopted[r] = "none"
  /\ cache' = [cache EXCEPT
        !.adopted[r] = IF cache.decision.hit THEN "hit" ELSE "miss",
        !.returned[r] = cache.decision.response,
        !.entries[r] = IF cache.decision.hit
                         THEN Touch(@, cache.proposed[r])
                         ELSE Put(@, cache.proposed[r], cache.decision.response,
                                  cache.capacity)]
  /\ UNCHANGED << runtime_vars, adasum, api, perform, manager, timeline, mutex >>

\* Every rank has the Response of the cycle.
EndCycle ==
  /\ cache.pc = "decided"
  /\ \A r \in Ranks : cache.adopted[r] # "none"
  /\ cache' = [cache EXCEPT !.pc = "idle"]
  /\ UNCHANGED << runtime_vars, adasum, api, perform, manager, timeline, mutex >>

CacheNext ==
  \/ \E names \in NameSets, attrs \in CacheAttrs : StartCycle(names, attrs)
  \/ \E r \in Ranks : Propose(r)
  \/ Decide
  \/ \E r \in Ranks : Adopt(r)
  \/ EndCycle

CacheSpec == CacheInit /\ [][CacheNext]_vars

\* ============================================================== properties

\* The names of a sequence of Responses.
NamesOf(responses) ==
  UNION { { responses[i].tensor_names[j] : j \in 1 .. Len(responses[i].tensor_names) }
          : i \in 1 .. Len(responses) }

\* Type and names of each Response of a sequence.
Strip(responses) ==
  [i \in 1 .. Len(responses) |->
     [response_type |-> responses[i].response_type,
      tensor_names |-> responses[i].tensor_names]]

\* What rank r has handed to PerformOperation so far, followed by what is
\* left of the list it holds.
Total(r) == performed[r] \o Strip(response_list[r].responses)

\* A step of the exchange: every rank is waiting in ComputeResponseList and
\* leaves it.
NegotiateStep ==
  /\ \A r \in Ranks : background_thread[r] = "popped"
  /\ \E r \in Ranks : background_thread'[r] # "popped"

\* The ranks that have submitted a Request for name n that no Response has
\* resolved: recorded at the coordinator or in the list the rank has popped.
Submitted(n) ==
  { q \in Ranks :
      \/ \E i \in 1 .. Len(message_table[n]) : message_table[n][i].request_rank = q
      \/ \E i \in 1 .. Len(message_list[q].requests) :
            message_list[q].requests[i].tensor_name = n }

\* C1: every rank is handed the same ResponseList (Responses and shutdown
\* flag) in a cycle and performs its Responses in the list's order: the
\* sequence of Responses a rank has performed, followed by those it still
\* holds, is the same on every rank.
C1_SameResponseSequence ==
  \A r1, r2 \in Ranks :
     /\ Total(r1) = Total(r2)
     /\ response_list[r1].shutdown = response_list[r2].shutdown

\* C1 witness: one cycle delivered two Responses; one rank has performed both
\* and another rank has performed the first and still holds the second.
C1_Witness ==
  \E r1, r2 \in Ranks :
     /\ Len(performed[r1]) = 2
     /\ Len(performed[r2]) = 1
     /\ Len(response_list[r2].responses) = 1
     /\ performed[r1][1] # performed[r1][2]

\* C2: a name is in a Response of a cycle only if every rank has submitted a
\* Request for it (and so holds a tensor-table entry for it); a name
\* submitted by some but not all ranks is in no Response of the cycle, stays
\* recorded at the coordinator, and its tensor-table entries remain.
C2_ReadyOnlyWhenAllRanks ==
  [][ NegotiateStep =>
        \A n \in Names :
           LET inResponse == \E r \in Ranks : n \in NamesOf(response_list'[r].responses)
           IN /\ inResponse =>
                   /\ Submitted(n) = Ranks
                   /\ \A q \in Ranks : tensor_table[q][n] # 0
              /\ (Submitted(n) # {} /\ Submitted(n) # Ranks) =>
                   /\ ~inResponse
                   /\ { message_table'[n][i].request_rank :
                          i \in 1 .. Len(message_table'[n]) } = Submitted(n)
                   /\ \A q \in Submitted(n) : tensor_table'[q][n] # 0
    ]_vars

\* C2 witness: in one cycle a name requested by every rank got a Response
\* while another name, requested by one rank only, stayed pending.
C2_Witness ==
  \E n1, n2 \in Names :
     /\ Len(message_table[n1]) = 1
     /\ \E r \in Ranks : background_thread[r] = "perform"
                         /\ n2 \in NamesOf(response_list[r].responses)

\* The request attributes submitted for name n by the ranks.
AttrsSubmitted(n) ==
  LET attrs(q) == [request_type |-> q.request_type, tensor_type |-> q.tensor_type,
                   tensor_shape |-> q.tensor_shape]
  IN { attrs(message_table[n][i]) : i \in 1 .. Len(message_table[n]) }
     \cup UNION { { attrs(message_list[q].requests[i]) :
                      i \in { j \in 1 .. Len(message_list[q].requests) :
                                message_list[q].requests[j].tensor_name = n } }
                  : q \in Ranks }

\* C3: a name every rank has requested, with request attributes that
\* mismatch, gets an ERROR Response naming it alone; every other name ready
\* in the cycle gets a non-ERROR Response in the same list; the list does not
\* carry the shutdown flag, and performing the ERROR Response completes the
\* entry with a precondition error and leaves the background loop running.
C3_MismatchIsolated ==
  [][ /\ NegotiateStep =>
           \A n \in Names : Submitted(n) = Ranks =>
              LET list == response_list'[Coordinator]
              IN IF Cardinality(AttrsSubmitted(n)) > 1
                   THEN /\ \E i \in 1 .. Len(list.responses) :
                              /\ list.responses[i].response_type = "ERROR"
                              /\ list.responses[i].tensor_names = << n >>
                        /\ ~list.shutdown
                   ELSE \E i \in 1 .. Len(list.responses) :
                           /\ list.responses[i].response_type # "ERROR"
                           /\ n \in NamesOf(<< list.responses[i] >>)
      /\ \A r \in Ranks :
           ( /\ background_thread[r] = "execute"
             /\ background_thread'[r] # "execute"
             /\ entries[r].response.response_type = "ERROR" ) =>
               /\ background_thread'[r] \in {"perform", "loop"}
               /\ \A k \in CallbacksOf(entries[r].cbs) :
                     cb_log'[r][k] = Append(cb_log[r][k], PRECONDITION_ERROR)
    ]_vars

\* C3 witness: a rank holds a list with an ERROR Response and a non-ERROR
\* Response of the same cycle.
C3_Witness ==
  \E r \in Ranks :
     /\ background_thread[r] = "perform"
     /\ \E i, j \in 1 .. Len(response_list[r].responses) :
           /\ response_list[r].responses[i].response_type = "ERROR"
           /\ response_list[r].responses[j].response_type # "ERROR"

\* C4: an Enqueue* call for a name that has an entry in the tensor table,
\* when not shut down, returns DUPLICATE_NAME_ERROR and changes neither the
\* tensor table nor the message queue nor any callback's log; the callback
\* of a call that returned DUPLICATE_NAME_ERROR is never invoked.
C4_DuplicateName ==
  /\ [][ \A r \in { q \in Ranks : calls'[q] # calls[q] } :
         \A n \in { m \in Names : ~shut_down[r] /\ tensor_table[r][m] # 0 } :
         \A attrs \in RequestAttrs :
           EnqueueTensor(r, n, attrs) =>
              /\ calls'[r] = Append(calls[r], DUPLICATE_NAME_ERROR)
              /\ tensor_table' = tensor_table
              /\ message_queue' = message_queue
              /\ cb_log' = cb_log
       ]_vars
  /\ [](\A r \in Ranks : \A k \in 1 .. Len(calls[r]) :
           calls[r][k] = DUPLICATE_NAME_ERROR => cb_log[r][k] = << >>)

\* C4 witness: a call returned DUPLICATE_NAME_ERROR while the first entry of
\* the name was still in the tensor table.
C4_Witness ==
  \E r \in Ranks : \E n \in Names :
     /\ calls[r] = << OK, DUPLICATE_NAME_ERROR >>
     /\ tensor_table[r][n] = 1

\* horovod_shutdown() has returned on rank r and horovod_init() has not been
\* called since.
ShutdownReturned(r) ==
  /\ ninits[r] > 0
  /\ background_thread[r] = "none"
  /\ ~initialize_flag[r]
  /\ ~joining[r]

\* C5: an Enqueue* call made once the background thread has begun its
\* shutdown drain, or once horovod_shutdown() has returned and before a
\* re-init, returns SHUT_DOWN_ERROR, whether or not the name has an entry,
\* and adds nothing to the tensor table or the message queue.
C5_EnqueueAfterShutdown ==
  [][ \A r \in { q \in Ranks :
                     /\ calls'[q] # calls[q]
                     /\ \/ background_thread[q] \in {"draining", "notify", "exited"}
                        \/ ShutdownReturned(q) } :
      \A n \in Names, attrs \in RequestAttrs :
        EnqueueTensor(r, n, attrs) =>
           /\ calls'[r] = Append(calls[r], SHUT_DOWN_ERROR)
           /\ tensor_table' = tensor_table
           /\ message_queue' = message_queue
    ]_vars

\* C8: once horovod_shutdown() has returned on a rank, every call the rank
\* has accepted is eventually resolved: its callback is invoked and its
\* entry does not stay in the tensor table.
C8_EventuallyResolved ==
  \A r \in Ranks : \A k \in CallIds :
     ( /\ ShutdownReturned(r)
       /\ k <= Len(calls[r])
       /\ calls[r][k] = OK )
     ~> ( /\ cb_log[r][k] # << >>
          /\ \A n \in Names : tensor_table[r][n] # k )

\* C6: the shutdown drain collects the callback of every entry of the
\* tensor table and leaves the table and the message queue empty; each
\* collected callback is then invoked with SHUT_DOWN_ERROR, and that is its
\* only invocation; once the thread has ended every call the rank accepted
\* has been resolved (or is left in progress by its operation), and the
\* table and the queue are empty.
C6_ShutdownDrain ==
  /\ [](\A r \in Ranks : background_thread[r] \in {"notify", "exited"} =>
           /\ \A n \in Names : tensor_table[r][n] = 0
           /\ message_queue[r] = << >>)
  /\ [](\A r \in Ranks : background_thread[r] = "exited" =>
           \A k \in 1 .. Len(calls[r]) :
              calls[r][k] = OK => (Len(cb_log[r][k]) = 1 \/ k \in in_flight[r]))
  /\ [][ \A r \in Ranks :
           /\ (background_thread[r] = "draining" /\ background_thread'[r] = "notify") =>
                 callbacks'[r] = {tensor_table[r][n] : n \in Names} \ {0}
           /\ (background_thread[r] = "notify" /\ background_thread'[r] = "exited") =>
                 \A k \in CallIds :
                    cb_log'[r][k] = IF k \in callbacks[r]
                                      THEN << SHUT_DOWN_ERROR >>
                                      ELSE cb_log[r][k]
       ]_vars

\* C6 witness: a thread has ended after its drain failed an outstanding entry.
C6_Witness ==
  \E r \in Ranks : \E k \in CallIds :
     /\ background_thread[r] = "exited"
     /\ cb_log[r][k] = << SHUT_DOWN_ERROR >>

\* C7: the callback of a call that returned OK is invoked at most once; the
\* callback of a call that returned an error is never invoked.
C7_CallbackAtMostOnce ==
  \A r \in Ranks : \A k \in CallIds :
     IF k <= Len(calls[r]) /\ calls[r][k] = OK
       THEN Len(cb_log[r][k]) <= 1
       ELSE cb_log[r][k] = << >>

\* C7 witness: the entries of a fused Response were completed by the failure
\* of the fusion buffer's initialization, and the thread has ended since.
C7_Witness ==
  \E r \in Ranks :
     /\ background_thread[r] = "exited"
     /\ \A k \in CallIds : cb_log[r][k] = << ALLOCATION_ERROR >>

\* C9: an Enqueue* call for a name without an entry, when not shut down,
\* returns OK, adds exactly the entry of the name to the tensor table and
\* exactly one Request, at the tail, to the rank's message queue, invokes no
\* callback and changes nothing else.
C9_EnqueueAccepted ==
  [][ \A r \in { q \in Ranks : calls'[q] # calls[q] } :
      \A n \in { m \in Names : ~shut_down[r] /\ tensor_table[r][m] = 0 } :
      \A attrs \in RequestAttrs :
        EnqueueTensor(r, n, attrs) =>
           /\ calls'[r] = Append(calls[r], OK)
           /\ tensor_table' = [tensor_table EXCEPT ![r][n] = Len(calls[r]) + 1]
           /\ message_queue' =
                [message_queue EXCEPT ![r] = Append(@, Request(r, n, attrs))]
           /\ cb_log' = cb_log
           /\ UNCHANGED << lifecycle_vars, message_table, message_list,
                           response_list, entries, callbacks, in_flight, performed >>
    ]_vars

\* C9 witness: a second call was accepted behind a Request still queued,
\* while the background thread was in the middle of a cycle.
C9_Witness ==
  \E r \in Ranks :
     /\ calls[r] = << OK, OK >>
     /\ Len(message_queue[r]) = 2
     /\ background_thread[r] = "popped"

Gathered == Concat(message_list, 0)

ReadyAt(n) ==
  LET at == { i \in 1 .. Len(Gathered) : Gathered[i].tensor_name = n }
  IN CHOOSE i \in at : \A j \in at : j <= i

\* C11: in every ResponseList negotiation produces, the names of a Response
\* were all requested with the Response's type and dtype, an ERROR Response
\* holds one name, the names appear, inside a Response and from Response to
\* Response, in the order in which they became ready, and the bytes of the
\* tensors of a Response of several names sum to at most the fusion
\* threshold.
C11_FusedResponses ==
  [][ NegotiateStep =>
        \A r \in Ranks :
           LET responses == response_list'[r].responses
               names(i) == responses[i].tensor_names
               bytes(n) == LET a == CHOOSE a \in AttrsSubmitted(n) : TRUE
                           IN a.tensor_shape * ElementSize(a.tensor_type)
               sum(i) == IF Len(names(i)) = 1 THEN bytes(names(i)[1])
                         ELSE bytes(names(i)[1]) + bytes(names(i)[2])
           IN /\ \A i \in 1 .. Len(responses) :
                    /\ Len(names(i)) \in 1 .. Cardinality(Names)
                    /\ IF responses[i].response_type = "ERROR"
                         THEN Len(names(i)) = 1
                         ELSE \A j \in 1 .. Len(names(i)) :
                                 \A a \in AttrsSubmitted(names(i)[j]) :
                                    /\ a.request_type = responses[i].response_type
                                    /\ a.tensor_type = responses[i].tensor_type
                    /\ Len(names(i)) > 1 => sum(i) <= FusionThreshold
              /\ \A i1, i2 \in 1 .. Len(responses) :
                    \A j1 \in 1 .. Len(names(i1)), j2 \in 1 .. Len(names(i2)) :
                       (i1 < i2 \/ (i1 = i2 /\ j1 < j2)) =>
                          ReadyAt(names(i1)[j1]) < ReadyAt(names(i2)[j2])
    ]_vars

\* C11 witness: one cycle has produced a fused Response of two names.
C11_Witness ==
  \E r \in Ranks :
     /\ background_thread[r] = "perform"
     /\ \E i \in 1 .. Len(response_list[r].responses) :
           Len(response_list[r].responses[i].tensor_names) = 2

\* C15: when PerformOperation is through with a Response, every entry of the
\* Response has had its callback invoked with one and the same Status (the
\* UnknownError Status when the execution raised an exception) or the
\* operation is left in progress; no Enqueue* call of a producer is touched,
\* no shutdown is signaled, and the thread goes on with the next Response of
\* the list or, after the last, with the next cycle.
C15_ExceptionBecomesStatus ==
  [][ \A r \in Ranks :
        (background_thread[r] = "execute" /\ background_thread'[r] # "execute") =>
           LET cbs == CallbacksOf(entries[r].cbs)
           IN /\ \/ /\ \E status \in {OK, UNKNOWN_ERROR, PRECONDITION_ERROR,
                                      ALLOCATION_ERROR} :
                          \A k \in CallIds :
                             cb_log'[r][k] = IF k \in cbs
                                               THEN Append(cb_log[r][k], status)
                                               ELSE cb_log[r][k]
                    /\ in_flight' = in_flight
                 \/ /\ in_flight'[r] = in_flight[r] \cup cbs
                    /\ cb_log' = cb_log
              /\ cbs # {}
              /\ calls' = calls
              /\ shut_down' = shut_down
              /\ background_thread'[r] =
                   IF response_list[r].responses # << >> THEN "perform" ELSE "loop"
    ]_vars

\* C15 witness: the execution of a Response has ended in UnknownError, its
\* callback has the Status, and the thread is at the next Response.
C15_Witness ==
  \E r \in Ranks : \E k \in CallIds :
     /\ cb_log[r][k] = << UNKNOWN_ERROR >>
     /\ background_thread[r] = "perform"
     /\ response_list[r].responses # << >>

\* C16: once the execution of a Response has failed on a rank, the rank's
\* background loop terminates: shutdown is signaled and the thread ends.
C16_FailureIsFatal ==
  \A r \in Ranks :
     (\E k \in CallIds : cb_log[r][k] = << UNKNOWN_ERROR >>)
       ~> (shut_down[r] \/ background_thread[r] \in {"shutting", "draining",
                                                     "notify", "exited"})

\* The sum over the local ranks, from lr on, of the count of tensor i.
RECURSIVE CountOverRanks(_, _)
CountOverRanks(i, lr) ==
  IF lr >= adasum.local_size
    THEN 0
    ELSE adasum.tensor_counts[lr][i] + CountOverRanks(i, lr + 1)

\* C17: the hierarchical reduction variant reports Enabled only when the
\* first entry's device is not the host device and hierarchical mode is
\* turned on in the parameters.
C17_EnabledOnlyHierarchicalOnDevice ==
  (adasum.pc \notin {"none", "called"} /\ adasum.enabled) =>
     (adasum.device # CPU_DEVICE_ID /\ adasum.hierarchical)

\* C18: in a homogeneous cluster, for every tensor of the Response, the
\* counts of the tensor on the local ranks (the root rank's share of the
\* remainder included) sum to the tensor's number of elements.
C18_TensorCountsSum ==
  (adasum.pc \in {"counted", "returned"} /\ adasum.homogeneous) =>
     \A i \in 1 .. Len(adasum.entries) :
        CountOverRanks(i, 0) = adasum.entries[i]

\* C18 witness: a tensor of a fused group lies across the boundary of two
\* local ranks' shards, and another lies inside one shard.
C18_Witness ==
  /\ adasum.pc = "counted"
  /\ adasum.homogeneous
  /\ Len(adasum.entries) > 1
  /\ \E i \in 1 .. Len(adasum.entries) :
        \E lr \in 0 .. (adasum.local_size - 2) :
           /\ adasum.tensor_counts[lr][i] > 0
           /\ adasum.tensor_counts[lr + 1][i] > 0
  /\ \E i \in 1 .. Len(adasum.entries) :
        adasum.tensor_counts[0][i] = adasum.entries[i]

\* C19: num_elements = num_elements_per_rank * local_size + remainder, with
\* num_elements_per_rank = num_elements / local_size in a homogeneous
\* cluster; tensors of 1000, 2000 and 3000 elements with local_size 4 in a
\* homogeneous cluster give 6000, 1500 and 0.
C19_SplitOfTheExample ==
  adasum.pc \in {"split", "counted", "returned"} =>
     /\ adasum.num_elements =
          adasum.num_elements_per_rank * adasum.local_size
            + adasum.num_elements_remaining
     /\ adasum.homogeneous =>
          adasum.num_elements_per_rank = adasum.num_elements \div adasum.local_size
     /\ ( /\ adasum.entries = << 1000, 2000, 3000 >>
          /\ adasum.local_size = 4
          /\ adasum.homogeneous ) =>
            /\ adasum.num_elements = 6000
            /\ adasum.num_elements_per_rank = 1500
            /\ adasum.num_elements_remaining = 0

\* C20: the fusion buffer holds the inputs of the entries one after the
\* other in entries order, without gap or overlap, and copying out of the
\* unmodified buffer gives every entry's output the bytes of its input.
C20_MemcpyRoundTrip ==
  (adasum.pc \in {"copied", "split", "counted", "returned"}
     /\ Len(adasum.entries) > 1) =>
     LET sizes == TensorSizes(adasum.entries, adasum.dtype)
     IN /\ Len(adasum.buffer) = NumElements(sizes)
        /\ \A i \in 1 .. Len(sizes) : \A j \in 1 .. sizes[i] :
              adasum.buffer[NumElements(SubSeq(sizes, 1, i - 1)) + j] = << i, j >>
        /\ adasum.pc = "returned" =>
              /\ Len(adasum.outputs) = Len(sizes)
              /\ \A i \in 1 .. Len(sizes) : adasum.outputs[i] = TensorData(i, sizes[i])

\* C20 witness: three entries have gone through the fusion buffer.
C20_Witness ==
  /\ adasum.pc = "returned"
  /\ Len(adasum.entries) = 3
  /\ Len(adasum.outputs) = 3
  /\ adasum.outputs[2] # << >>

\* C14: horovod_shutdown() joins the background thread and resets the
\* process state: at its return the thread is gone, initialize_flag and
\* shut_down are cleared and the tensor table and the message queue are
\* empty; a later horovod_init starts a fresh background thread, which accepts
\* enqueues again; horovod_shutdown() without a background thread changes
\* nothing.
C14_ShutdownResets ==
  /\ [][ \A r \in Ranks :
           horovod_shutdown_joined(r) =>
             /\ background_thread[r] = "exited"
             /\ background_thread'[r] = "none"
             /\ ~initialize_flag'[r]
             /\ ~shut_down'[r]
             /\ \A n \in Names : tensor_table'[r][n] = 0
             /\ message_queue'[r] = << >> ]_vars
  /\ [][ \A r \in Ranks :
           (ShutdownReturned(r) /\ horovod_init_comm(r, MaxReinits)) =>
             /\ background_thread'[r] = "init"
             /\ initialize_flag'[r]
             /\ ~shut_down'[r]
             /\ ninits'[r] = ninits[r] + 1 ]_vars
  /\ [][ \A r \in Ranks :
           (background_thread[r] = "none" /\ horovod_shutdown(r)) =>
             UNCHANGED vars ]_vars
  /\ [][ \A r \in { q \in Ranks : /\ calls'[q] # calls[q]
                                   /\ ninits[q] = MaxReinits
                                   /\ background_thread[q] = "loop"
                                   /\ ~shut_down[q]
                                   /\ tensor_table[q][AllreduceName] = 0 } :
           \A attrs \in RequestAttrs :
             EnqueueTensorAllreduce(r, AllreduceName, attrs) =>
               /\ calls'[r] = Append(calls[r], OK)
               /\ tensor_table'[r][AllreduceName] # 0 ]_vars

\* A rank whose second background thread, started after a shutdown that
\* returned, has accepted an enqueue.
C14_Witness ==
  \E r \in Ranks :
    /\ ninits[r] = MaxReinits
    /\ background_thread[r] = "loop"
    /\ Len(calls[r]) > 0
    /\ calls[r][Len(calls[r])] = OK
    /\ tensor_table[r][AllreduceName] # 0
    /\ cb_log[r][Len(calls[r])] = << >>

\* C13: whatever the interleaving of horovod_init, horovod_init_comm and
\* horovod_shutdown calls from the threads of a process, at most one
\* background thread exists at any time.
C13_AtMostOneBackgroundThread ==
  api.pc # "none" => Cardinality(BackgroundThreads) <= 1

\* C12: with the Response Cache enabled, a cycle that negotiates the set of
\* names and attributes of the cycle before it gives every rank a cache hit
\* and the Response of that cycle, unchanged; and in every cycle all ranks
\* take the same hit/miss decision and get the same Response.
C12_CacheHitIdempotent ==
  cache.pc # "none" =>
    /\ \A r \in Ranks, q \in Ranks :
         (cache.adopted[r] # "none" /\ cache.adopted[q] # "none") =>
            /\ cache.adopted[r] = cache.adopted[q]
            /\ cache.returned[r] = cache.returned[q]
    /\ \A r \in Ranks :
         ( /\ cache.capacity > 0
           /\ cache.adopted[r] # "none"
           /\ cache.previous.key = Fingerprint(cache.names, cache.attrs) ) =>
            /\ cache.adopted[r] = "hit"
            /\ cache.returned[r] = cache.previous.response
    /\ \A r \in Ranks :
         cache.adopted[r] = "hit" =>
            /\ Cached(cache.entries[r], cache.proposed[r])
            /\ cache.returned[r] = Lookup(cache.entries[r], cache.proposed[r])

\* Every rank has a cache hit for names that became ready in another order
\* than in the cycle that cached their Response.
C12_Witness ==
  /\ cache.pc = "decided"
  /\ \A r \in Ranks : cache.adopted[r] = "hit"
  /\ cache.previous.key = Fingerprint(cache.names, cache.attrs)
  /\ cache.returned[Coordinator].tensor_names # cache.names

\* The positions of NcclHierarchical behind the split of num_elements.
AfterSplit ==
  {"split", "scattered", "reduced", "waited", "on_host", "cross_reduced",
   "cross_done", "gathered", "broadcast", "returned"}

\* C28: num_elements is padded exactly when the cluster is homogeneous and
\* the Response has more than one entry, to the least multiple of
\* local_size * FUSION_BUFFER_ATOMIC_UNIT that is not below the real total;
\* the remainder is then 0 and every local rank owns num_elements /
\* local_size elements.  Otherwise num_elements is the real total.
C28_PaddingToAtomicUnit ==
  adasum.pc \in AfterSplit =>
    LET total == NumElements(adasum.entries)
        div == adasum.local_size * FUSION_BUFFER_ATOMIC_UNIT
    IN IF adasum.homogeneous /\ Len(adasum.entries) > 1
         THEN /\ adasum.num_elements >= total
              /\ adasum.num_elements % div = 0
              /\ adasum.num_elements - total < div
              /\ adasum.num_elements_remaining = 0
              /\ adasum.num_elements_per_rank * adasum.local_size = adasum.num_elements
         ELSE adasum.num_elements = total

\* A fused group of a homogeneous node of three ranks that was padded.
C28_Witness ==
  /\ adasum.pc = "returned"
  /\ adasum.homogeneous
  /\ adasum.local_size = 3
  /\ Len(adasum.entries) > 1
  /\ adasum.num_elements > NumElements(adasum.entries)
  /\ adasum.num_elements_remaining = 0

StepsIssued(across) ==
  SelectSeq(HierarchicalSteps,
            LAMBDA st :
              IF st \in {"MemcpyInFusionBuffer", "MemcpyOutFusionBuffer"}
                THEN Len(adasum.entries) > 1
              ELSE IF st \in {"ncclReduceScatter", "ncclAllGather"}
                THEN adasum.num_elements_per_rank > 0
              ELSE IF st \in {"ncclReduce", "ncclBcast"}
                THEN adasum.num_elements_remaining > 0
              ELSE across)

\* C30 as stated: every reduction issues the wait, the copy to the host, the
\* reduction across the nodes and the copy back, between the intra-node
\* reduce steps and the Allgather.
C30_FixedOrder ==
  /\ adasum.pc = "returned" => adasum.steps = StepsIssued(TRUE)
  /\ adasum.pc \in {"waited", "on_host"} => adasum.event_queue = << >>

\* C30, amended: one hierarchical reduction issues its steps in the fixed
\* order, the four steps across the nodes only on a rank of a homogeneous
\* cluster or on the root rank; the reduction across the nodes starts with
\* no recorded event left to wait for.
C30_FixedOrderOfOwners ==
  /\ adasum.pc = "returned" =>
        adasum.steps = StepsIssued(adasum.homogeneous
                                     \/ adasum.local_rank = RootRank(adasum.local_size,
                                                                      adasum.homogeneous))
  /\ adasum.pc \in {"waited", "on_host"} => adasum.event_queue = << >>
  /\ \A i \in 1 .. Len(adasum.steps) :
        adasum.steps[i] = "DispatchFusedAllreduce" =>
           \E j \in 1 .. (i - 1) : adasum.steps[j] = "WaitForEvents"

\* A rank that is not the root of a node of a cluster that is not
\* homogeneous: it reduces onto the root and receives the broadcast.
C30_Witness ==
  /\ adasum.pc = "returned"
  /\ ~adasum.homogeneous
  /\ adasum.local_rank # 0
  /\ Len(adasum.entries) > 1
  /\ adasum.steps = << "MemcpyInFusionBuffer", "ncclReduce", "ncclBcast",
                       "MemcpyOutFusionBuffer" >>

\* ------------------------------------------------ PerformOperation claims

\* The timeline End records of the call, in order.
TimelineEnds == SelectSeq(perform.timeline, LAMBDA rec : rec[1] = "End")

\* C24, the wait: ExecuteOperation has been called only if every entry with
\* a ready_event was observed Ready, and an entry without a ready_event is
\* never on waiting_tensors.
C24_Waited ==
  /\ perform.pc # "none" /\ perform.executed > 0 =>
       \A n \in RangeOf(perform.entries) :
          perform.ready_event[n] # "nullptr" => n \in perform.observed
  /\ perform.pc # "none" =>
       \A n \in RangeOf(PerformNames) :
          perform.ready_event[n] = "nullptr" =>
             n \notin RangeOf(perform.waiting_tensors) \cup perform.observed

\* The wait loop is running and every ready_event still waited for is ready.
AllReady ==
  /\ perform.pc \in {"while", "for"}
  /\ \A n \in RangeOf(perform.waiting_tensors) : perform.ready_event[n] = "ready"

\* C24: PerformOperation calls ExecuteOperation only after every entry with
\* a ready_event has been observed Ready, entries without a ready_event are
\* not waited for, and once all outstanding ready_events are ready the wait
\* loop is left.
C24_ExecuteAfterReady ==
  /\ []C24_Waited
  /\ AllReady ~> perform.pc \in {"waited", "executed", "returned"}

\* The operation was executed for three entries: two were polled until
\* ready, one has no ready_event.
C24_Witness ==
  /\ perform.pc = "executed"
  /\ perform.entries = PerformNames
  /\ perform.observed = {"a", "c"}
  /\ perform.ready_event["b"] = "nullptr"

\* C25: the fusion buffer is initialized only for a Response with more than
\* one entry; when InitializeBuffer fails, every entry's callback has been
\* invoked once with its Status, ExecuteOperation is not called, and the
\* entries are no longer in the tensor table.
C25_FusionBufferFailure ==
  perform.pc # "none" =>
    /\ perform.initialized <= 1
    /\ perform.initialized = 1 => Len(perform.response.tensor_names) > 1
    /\ (perform.initialized = 1 /\ perform.init_status # OK) =>
         /\ perform.pc = "returned"
         /\ perform.executed = 0
         /\ perform.invoked =
              [i \in 1 .. Len(perform.response.tensor_names) |->
                 << perform.response.tensor_names[i], perform.init_status >>]
         /\ perform.tensor_table \cap RangeOf(perform.response.tensor_names) = {}
    /\ (perform.pc = "returned" /\ Len(perform.response.tensor_names) > 1) =>
         perform.initialized = 1

\* InitializeBuffer failed for a Response of two entries.
C25_Witness ==
  /\ perform.pc = "returned"
  /\ Len(perform.entries) = 2
  /\ perform.initialized = 1
  /\ perform.status = ALLOCATION_ERROR
  /\ Len(perform.invoked) = 2

\* C27: when ExecuteOperation returns an in-progress Status, PerformOperation
\* invokes no callback and writes no timeline End; for every other Status it
\* invokes each entry's callback exactly once with that Status and ends each
\* entry's timeline, with the output only when the Status is ok.
C27_InProgressLeftToFinalizer ==
  perform.pc # "none" =>
    /\ (perform.pc # "returned") => (perform.invoked = << >> /\ TimelineEnds = << >>)
    /\ (perform.pc = "returned" /\ perform.executed = 1) =>
         IF perform.status = IN_PROGRESS
           THEN perform.invoked = << >> /\ TimelineEnds = << >>
           ELSE /\ perform.invoked =
                     [i \in 1 .. Len(perform.entries) |->
                        << perform.entries[i], perform.status >>]
                /\ TimelineEnds =
                     [i \in 1 .. Len(perform.entries) |->
                        << "End", perform.entries[i],
                           IF perform.status = OK THEN "output" ELSE "nullptr" >>]

\* A fused Response was executed and left in progress.
C27_Witness ==
  /\ perform.pc = "returned"
  /\ perform.executed = 1
  /\ perform.status = IN_PROGRESS
  /\ Len(perform.entries) = 2
  /\ perform.invoked = << >>

\* ------------------------------------------------------- RunLoopOnce claims

\* The thread of rank r has left the loop of BackgroundThreadLoop.
LoopLeft(r) == background_thread[r] \in {"shutting", "draining", "notify", "exited"}

\* C26, one step: a PerformOperation starts only when the previous one has
\* finished, and on the first Response left of the list; the loop is left
\* only with no Response left, also when the list carries the shutdown
\* flag; a callback gets the shutdown error only after that.
C26_Step ==
  \A r \in Ranks :
     /\ performed'[r] # performed[r] =>
          /\ entries[r] = NoEntries
          /\ response_list[r].responses # << >>
          /\ performed'[r] = Append(performed[r],
                                    Head(Strip(response_list[r].responses)))
          /\ response_list'[r].responses = Tail(response_list[r].responses)
     /\ LoopLeft(r)' =>
          /\ response_list'[r].shutdown
          /\ response_list'[r].responses = << >>
          /\ entries'[r] = NoEntries
     /\ \A k \in CallIds :
          (cb_log'[r][k] # cb_log[r][k]
             /\ cb_log'[r][k][Len(cb_log'[r][k])] = SHUT_DOWN_ERROR) =>
            /\ background_thread[r] = "notify"
            /\ response_list[r].responses = << >>

\* C26: the Responses of a list are executed one at a time in list order;
\* when the list carries the shutdown flag they are all executed before the
\* loop stops, and only then the outstanding entries are failed with the
\* shutdown error.
C26_ListOrderThenShutdown == [][C26_Step]_vars

\* A list with the shutdown flag and two Responses, "b" before "a": rank 0
\* has performed both in that order and its thread has ended.
C26_Witness ==
  /\ background_thread[0] = "exited"
  /\ response_list[0].shutdown
  /\ Len(performed[0]) = 2
  /\ performed[0][1].tensor_names = << "b" >>
  /\ performed[0][2].tensor_names = << "a" >>

\* ------------------------------------------------ outstanding Requests

\* The Requests of a sequence that rank r sent for name n.
RequestsOf(requests, r, n) ==
  SelectSeq(requests, LAMBDA msg : msg.request_rank = r /\ msg.tensor_name = n)

\* The Requests of rank r for name n in flight: in the rank's message queue,
\* popped and on their way to the coordinator, or pending in the
\* coordinator's message table.
InFlight(r, n) ==
  Len(RequestsOf(message_queue[r], r, n))
    + Len(RequestsOf(message_list[r].requests, r, n))
    + Len(RequestsOf(message_table[n], r, n))

\* C22: at every moment no two Requests with the same name from the same
\* rank are in flight, in the message queue or pending at the coordinator.
C22_OneOutstandingRequest ==
  \A r \in Ranks, n \in Names : InFlight(r, n) <= 1

\* A Request of rank 0 for "a" is pending at the coordinator, and a second
\* enqueue of "a" on rank 0 was rejected as a duplicate.
C22_Witness ==
  /\ Len(RequestsOf(message_table["a"], 0, "a")) = 1
  /\ tensor_table[0]["a"] # 0
  /\ \E k \in 1 .. Len(calls[0]) : calls[0][k] = DUPLICATE_NAME_ERROR

\* ------------------------------------------- Responses and the tensor table

\* All names of a sequence of Responses, in order.
RECURSIVE AllNames(_)
AllNames(responses) ==
  IF responses = << >> THEN << >>
  ELSE Head(responses).tensor_names \o AllNames(Tail(responses))

\* C23, one step: when a list is delivered to rank r (where the autotuner
\* reads it) every name of it has an entry in r's tensor table and no name
\* occurs twice in it; when r hands a Response to PerformOperation every
\* name of the Response has an entry in r's tensor table.
C23_Step ==
  \A r \in Ranks :
     /\ (background_thread[r] = "popped" /\ background_thread'[r] # "popped") =>
          LET names == AllNames(response_list'[r].responses)
          IN /\ \A i \in 1 .. Len(names) : tensor_table'[r][names[i]] # 0
             /\ \A i, j \in 1 .. Len(names) : names[i] = names[j] => i = j
     /\ performed'[r] # performed[r] =>
          LET names == performed'[r][Len(performed'[r])].tensor_names
          IN \A i \in 1 .. Len(names) : tensor_table[r][names[i]] # 0

\* C23: whenever a rank processes a Response or reads it for the autotuner,
\* every tensor name of the Response is in that rank's tensor table; no name
\* occurs twice in one response list.
C23_NamesInTensorTable == [][C23_Step]_vars

\* Rank 1 has handed a fused Response of two names to PerformOperation.
C23_Witness ==
  /\ performed[1] # << >>
  /\ Len(performed[1][1].tensor_names) = 2
  /\ entries[1].cbs = << 1, 2 >>

\* ------------------------------------------------------- CheckInitialized

\* An initialization is in progress: a caller has won test_and_set and not
\* yet started the thread, or a background thread has not yet set
\* initialization_done.
InitInProgress ==
  \/ \E c \in Callers : api.at[c] = "start"
  \/ \E t \in 1 .. Len(api.threads) : api.threads[t] = "init"

\* Initialization has completed: a background thread has finished its
\* initialization and no initialization is in progress.
InitCompleted ==
  /\ \E t \in 1 .. Len(api.threads) : api.threads[t] # "init"
  /\ ~InitInProgress

\* C21, one call: CheckInitialized returns NOT_INITIALIZED_ERROR and
\* horovod_rank returns -1 exactly when initialization has not completed.
C21_Step ==
  \A c \in Callers :
     (api.at[c] = "idle" /\ api'.at[c] = "returned") =>
        LET res == api'.result[c]
        IN IF res.call = "CheckInitialized"
             THEN res.status = IF InitCompleted THEN OK ELSE NOT_INITIALIZED_ERROR
             ELSE res.value = IF InitCompleted THEN GetRank ELSE -1

\* C21: CheckInitialized returns the NotInitialized precondition error, and
\* horovod_rank / local_rank / size / local_size return -1, exactly when
\* initialization has not completed (before the first init finishes, and
\* while a re-init is still in progress); once init has completed they
\* return OK and the controller's values.
C21_NotInitializedUntilDone == [][api.pc = "run" => C21_Step]_vars

\* --------------------------------------------- owners of the fused tensor

\* The call has issued the step.
Issued(step) == \E i \in 1 .. Len(adasum.steps) : adasum.steps[i] = step

\* C31: in a homogeneous cluster every local rank takes part in the
\* cross-node reduction with its shard of num_elements_per_rank =
\* num_elements / local_size elements, and only rank local_size - 1 owns
\* the remainder as well; in a cluster that is not homogeneous
\* num_elements_per_rank is 0, the remainder is the whole tensor, and only
\* rank 0 does the host copy and the cross-node reduction.
C31_OwnersOfShardAndRemainder ==
  adasum.pc = "returned" =>
    IF adasum.homogeneous
      THEN /\ adasum.num_elements_per_rank = adasum.num_elements \div adasum.local_size
           /\ adasum.num_elements_remaining = adasum.num_elements % adasum.local_size
           /\ Issued("cudaMemcpyDeviceToHost") /\ Issued("DispatchFusedAllreduce")
           /\ adasum.total_num_elements =
                IF adasum.local_rank = adasum.local_size - 1
                  THEN adasum.num_elements_per_rank + adasum.num_elements_remaining
                  ELSE adasum.num_elements_per_rank
      ELSE /\ adasum.num_elements_per_rank = 0
           /\ adasum.num_elements_remaining = adasum.num_elements
           /\ Issued("cudaMemcpyDeviceToHost") <=> adasum.local_rank = 0
           /\ Issued("DispatchFusedAllreduce") <=> adasum.local_rank = 0
           /\ adasum.local_rank = 0 => adasum.total_num_elements = adasum.num_elements

\* The root rank of a homogeneous node of four ranks has reduced its shard
\* of 32 elements and the remainder of 2.
C31_Witness ==
  /\ adasum.pc = "returned"
  /\ adasum.homogeneous
  /\ adasum.local_size = 4 /\ adasum.local_rank = 3
  /\ adasum.num_elements = 130
  /\ adasum.total_num_elements = 34
  /\ Issued("ncclReduce")

RECURSIVE SumOf(_)
SumOf(counts) == IF counts = << >> THEN 0 ELSE Head(counts) + SumOf(Tail(counts))

\* The rank has computed its tensor_counts.
Counted ==
  /\ adasum.pc \in {"cross_reduced", "cross_done", "gathered", "broadcast", "returned"}
  /\ Issued("DispatchFusedAllreduce")

\* C38 as stated: on every local rank taking part in the cross-node
\* reduction the sum of its tensor_counts equals the number of elements of
\* the range it owns and copies to the host buffer, also when the fused
\* total was padded, and every count is between 0 and its tensor's elements.
C38_CountsSumToOwnedRange ==
  Counted =>
    /\ SumOf(adasum.tensor_counts) = adasum.total_num_elements
    /\ \A i \in 1 .. Len(adasum.entries) :
          adasum.tensor_counts[i] \in 0 .. adasum.entries[i]

\* The elements of the tensors (the padding left out) in the range a rank
\* owns.
TensorElementsOwned ==
  LET real == NumElements(adasum.entries)
      per == adasum.num_elements_per_rank
      lr == adasum.local_rank
      shard == Max(Min(real, (lr + 1) * per) - lr * per, 0)
      rest == Max(real - adasum.local_size * per, 0)
  IN IF ~adasum.homogeneous THEN real
     ELSE IF lr = adasum.local_size - 1 THEN shard + rest
     ELSE shard

\* C38, amended: the sum of a rank's tensor_counts equals the number of
\* tensor elements in the range it owns, which is the length of the range
\* when the fused total was not padded and is smaller by the padding in the
\* range when it was; every count is between 0 and its tensor's elements.
C38_CountsSumToTensorElements ==
  Counted =>
    /\ Len(adasum.tensor_counts) = Len(adasum.entries)
    /\ SumOf(adasum.tensor_counts) = TensorElementsOwned
    /\ SumOf(adasum.tensor_counts) <= adasum.total_num_elements
    /\ adasum.num_elements = NumElements(adasum.entries) =>
          SumOf(adasum.tensor_counts) = adasum.total_num_elements
    /\ \A i \in 1 .. Len(adasum.entries) :
          adasum.tensor_counts[i] \in 0 .. adasum.entries[i]

\* A fused total of 250 elements was padded to 256 on a node of two ranks:
\* the second rank owns 128 elements, 122 of them of the second tensor.
C38_Witness ==
  /\ Counted
  /\ adasum.entries = << 128, 122 >>
  /\ adasum.local_size = 2 /\ adasum.local_rank = 1
  /\ adasum.num_elements = 256
  /\ adasum.total_num_elements = 128
  /\ adasum.tensor_counts = << 0, 122 >>


\* The scan of one list ended with an execution.
ScanExecuted == manager.pc = "executed" /\ manager.response_type # "ERROR"

\* C32: for every Response exactly one operation variant is executed: the
\* first one of the list that CreateOperationManager registered, in its
\* order, whose Enabled check returned true, every op before it having
\* returned false; the MPI default is the last op of each list and the
\* scan never reaches the end of a list without an enabled op.
C32_FirstEnabledVariantExecuted ==
  /\ manager.pc = "created" /\ manager.response_type # "ERROR" =>
       Len(manager.checked) < Len(manager.ops[OpsFor(manager.response_type)])
  /\ manager.pc \in {"created", "executed"} =>
       \A l \in DOMAIN manager.ops :
         /\ manager.ops[l][Len(manager.ops[l])] = DefaultOps[l]
         /\ \A j \in 1..(Len(manager.ops[l]) - 1) : manager.ops[l][j] # DefaultOps[l]
  /\ manager.pc = "executed" => Len(manager.executed) = 1
  /\ ScanExecuted =>
       LET list == manager.ops[OpsFor(manager.response_type)]
           n == Len(manager.checked)
       IN /\ n <= Len(list)
          /\ \A j \in 1..n : manager.checked[j] = << list[j], j = n >>
          /\ manager.executed = << list[n] >>

\* An NCCL build skipped both NCCL variants and a disabled Gloo variant and
\* ran the MPI default.
C32_Witness ==
  /\ ScanExecuted
  /\ Len(manager.checked) = 4
  /\ manager.executed = << "MPIAllreduce" >>


\* What a hook can change of the timeline: initialized_, file_ and
\* tensor_table_.
TimelineState(t) == << t.initialized, t.is_open, t.good, t.file, t.tensor_table >>

\* A hook was called in this step.
HookCalled == timeline'.calls = timeline.calls + 1 /\ timeline'.last # "Initialize"

\* C33: a hook called while the timeline is not initialized writes no event
\* and changes no timeline state, and a hook called once the stream is not
\* good writes nothing to the file.
C33_HooksNoOpWhenDisabled ==
  [][HookCalled =>
       /\ ~timeline.initialized => TimelineState(timeline') = TimelineState(timeline)
       /\ ~timeline.good => timeline'.file = timeline.file]_vars

\* Initialize failed to open the file and two hooks were called after it.
C33_Witness ==
  /\ timeline.pc = "called"
  /\ ~timeline.initialized /\ ~timeline.is_open /\ ~timeline.good
  /\ timeline.calls = 3
  /\ timeline.last = "End"


\* The threads that are at a statement reading or writing tensor_table or
\* message_queue.
Accessing ==
  { t \in MutexThreads : mutex.enq[t] \in EnqueueAccesses }
  \cup (IF mutex.pc \in BackgroundAccesses /\ mutex.enq[BackgroundThread] = "idle"
          THEN {BackgroundThread} ELSE {})

\* C34: a thread at a read or write of the tensor table or of the request
\* queue holds the mutex, so no two threads are at such a statement at once.
C34_AccessesHoldTheMutex ==
  /\ \A t \in Accessing : mutex.owner = t
  /\ Cardinality(Accessing) <= 1

\* A producer is about to emplace, holding the mutex, while the background
\* thread waits for it at PerformOperation with a Response for the other
\* producer's tensor.
C34_Witness ==
  /\ mutex.pc = "perform"
  /\ mutex.response = {"a"}
  /\ mutex.enq["p1"] = "emplace"
  /\ mutex.name["p1"] = "b"


\* The background thread is inside a callback that has not entered
\* EnqueueTensor*, or is about to take the mutex in it.
OutsideTheGuard ==
  /\ mutex.pc \in CallbackPositions
  /\ mutex.enq[BackgroundThread] \in {"idle", "lock"}

\* The callbacks run without the mutex, so that the lock of a re-entrant
\* EnqueueTensor* is never a lock the background thread waits for itself.
C36_CallbacksOutsideTheMutex == OutsideTheGuard => mutex.owner # BackgroundThread

\* A callback of the shutdown drain has called EnqueueTensor*, which returned.
ReenteredInDrain ==
  /\ mutex.pc = "drain_callbacks"
  /\ mutex.enq[BackgroundThread] = "returned"

\* C36: the background thread holds no mutex while it invokes a callback, in
\* PerformOperation and in the shutdown drain, so a callback calling
\* EnqueueTensor* does not wait for itself; and such a call made from a
\* callback of the shutdown drain returns SHUT_DOWN_ERROR.
C36_ReentrantEnqueueInDrain ==
  /\ C36_CallbacksOutsideTheMutex
  /\ ReenteredInDrain => mutex.result[BackgroundThread] = SHUT_DOWN_ERROR


\* The call of horovod_init by caller c returns in this step.
InitReturns(c) == api.at[c] = "wait" /\ api'.at[c] = "idle"

\* The background thread of the initialization that c's call found in force
\* or started has been started and is past its initialization.
CurrentThreadInitialized(c) ==
  /\ api.called[c] \in 1 .. Len(api.threads)
  /\ api.threads[api.called[c]] # "init"

\* C35: horovod_init returns to a caller only after the background thread
\* of the initialization in force has finished its initialization, whether
\* the caller started that thread or lost test_and_set to another caller,
\* also when the initialization follows a shutdown.
C35_InitReturnsAfterInitialization ==
  [][\A c \in Callers : InitReturns(c) => CurrentThreadInitialized(c)]_vars


\* Every Request in a rank's message_queue has an entry of its name in the
\* rank's tensor_table.
QueuedNamesInTable ==
  \A r \in Ranks : \A i \in 1 .. Len(message_queue[r]) :
    tensor_table[r][message_queue[r][i].tensor_name] # 0

\* The entry of name n leaves rank r's tensor_table in this step.
Removed(r, n) == tensor_table[r][n] # 0 /\ tensor_table'[r][n] = 0

\* The step is PerformOperation's critical section for a Response naming n,
\* or the critical section of the shutdown drain.
RemovedByPerformOrDrain(r, n) ==
  \/ /\ background_thread[r] = "perform"
     /\ background_thread'[r] = "execute"
     /\ n \in RangeOf(entries'[r].response.tensor_names)
  \/ /\ background_thread[r] = "draining"
     /\ background_thread'[r] = "notify"

\* C37: the names queued on a rank are keys of its tensor table in every
\* state, and an entry leaves the table only in PerformOperation for a
\* Response naming it or in the shutdown drain.
C37_QueuedNamesHaveEntries ==
  /\ []QueuedNamesInTable
  /\ [][\A r \in Ranks, n \in Names : Removed(r, n) => RemovedByPerformOrDrain(r, n)]_vars

\* A rank has performed a Response and holds a queued Request of another
\* tensor with its entry.
C37_Witness ==
  \E r \in Ranks :
    /\ performed[r] # << >>
    /\ message_queue[r] # << >>
    /\ message_queue[r][1].tensor_name \notin RangeOf(performed[r][1].tensor_names)
    /\ tensor_table[r][message_queue[r][1].tensor_name] # 0


\* The timeline records of tensor n among the first k records.
RecordsOf(n, k) == SelectSeq(SubSeq(perform.timeline, 1, k), LAMBDA rec : rec[2] = n)

\* How many of the records are calls of op.
CountOf(op, records) == Len(SelectSeq(records, LAMBDA rec : rec[1] = op))

\* The activities of tensor n that are open after the first k records.
OpenActivities(n, k) ==
  CountOf("ActivityStart", RecordsOf(n, k)) - CountOf("ActivityEnd", RecordsOf(n, k))

\* The call ran to a Status that is not in progress: the fusion buffer
\* failed, or the operation returned.
CompletedPath == perform.pc = "returned" /\ perform.status # IN_PROGRESS

\* C39: for every entry of a PerformOperation call the timeline gets Start
\* first and once, before any activity and before End; End at most once and
\* last, and exactly once when the call ends on a failure of the fusion
\* buffer or on a Status that is not in progress; every ActivityEnd ends an
\* open activity, an entry with a ready_event gets a WAIT_FOR_DATA activity,
\* and no activity is open once ExecuteOperation has been called.
C39_TimelineOrder ==
  perform.pc # "none" =>
    \A n \in RangeOf(perform.entries) :
      LET all == Len(perform.timeline)
          recs == RecordsOf(n, all)
      IN /\ recs # << >> => recs[1][1] = "Start"
         /\ CountOf("Start", recs) <= 1
         /\ CountOf("End", recs) <= 1
         /\ CountOf("End", recs) = 1 => recs[Len(recs)][1] = "End"
         /\ CompletedPath => CountOf("End", recs) = 1
         /\ \A k \in 0 .. all : OpenActivities(n, k) \in {0, 1}
         /\ perform.executed > 0 =>
              /\ OpenActivities(n, all) = 0
              /\ perform.ready_event[n] # "nullptr" =>
                   << "ActivityStart", n, "WAIT_FOR_DATA" >> \in RangeOf(recs)

\* A fused call of three entries, some with a ready_event, has executed and
\* ended every timeline: the waits were opened and closed before.
C39_Witness ==
  /\ CompletedPath
  /\ perform.executed = 1
  /\ Len(perform.entries) = 3
  /\ CountOf("ActivityStart", perform.timeline) >= 4
  /\ CountOf("End", perform.timeline) = 3


\* horovod_shutdown has been called on every rank and waits in join().
ShutdownCalledEverywhere == \A r \in Ranks : joining[r]

\* On every rank the background thread has ended and join() has returned.
ShutdownReturnedEverywhere ==
  \A r \in Ranks : ~joining[r] /\ background_thread[r] = "none"

RequestedBy(n) ==
  { r \in Ranks :
      \/ \E i \in 1 .. Len(message_queue[r]) : message_queue[r][i].tensor_name = n
      \/ \E i \in 1 .. Len(message_list[r].requests) :
           message_list[r].requests[i].tensor_name = n
      \/ \E i \in 1 .. Len(message_table[n]) : message_table[n][i].request_rank = r }

\* No tensor name is left requested by some ranks only.
NoNameLeftPending == \A n \in Names : RequestedBy(n) \in {{}, Ranks}

====
